---------------------------- MODULE Spec2Model ----------------------------
(***************************************************************************)
(* KiddoLand Platform API: the token module, the auth service and the      *)
(* story request handlers, modelled from the Python sources.               *)
(*                                                                         *)
(* Text is a TLA+ string, read one character at a time with SubSeq; bytes  *)
(* are the integers 0..255.                                                *)
(***************************************************************************)
EXTENDS Integers, Sequences, FiniteSets, TLC

VARIABLES
    now,        \* int(time.time()): the wall clock, in seconds
    secret,     \* os.getenv("KIDDOLAND_AUTH_SECRET"), "" when not configured
    token,      \* the token string the client holds
    origin,     \* how the held token came about (issued / altered / crafted)
    outcome,    \* what the last call returned or raised
    mongo_configured,   \* MONGODB_URI is set and the server answers: a users collection exists
    users_collection,   \* the documents of the users collection
    auth_users_env,     \* KIDDOLAND_AUTH_USERS: whether it is set, and its json.loads
    user_cache,         \* _user_cache: the fallback credential list, once built
    pending,            \* per request: where a register_user call stands
    authOutcome,        \* what the last authenticate_user / register_user call did
    story_history,      \* the documents of the story_history collection
    story_ids,          \* how many ObjectIds the story_history collection has given out
    storyOutcome,       \* what the last story request did
    argument,           \* the value a caller passes to a function of the safety module
    textOutcome,        \* what the last call of such a function returned
    process,            \* where the process stands: importing main.py, serving, or dead
    hf_env,             \* HUGGINGFACE_API_TOKEN, HUGGINGFACE_API_URL, HUGGINGFACE_MODEL
    hf_config,          \* _HF_CONFIG of utils/config.py
    hf_loads,           \* how often _load_huggingface_config has run
    hf_calls,           \* per thread: where its get_huggingface_config call stands
    store_builds,       \* how often _get_user_store has built a credential list
    logins,             \* per thread: where its authenticate_user call stands
    toggles             \* per thread: where its toggle_story_favorite call stands

tokenVars == <<now, secret, token, origin, outcome>>
authVars == <<mongo_configured, users_collection, auth_users_env, user_cache, pending,
              authOutcome>>
storyVars == <<story_history, story_ids, storyOutcome>>
textVars == <<argument, textOutcome>>
configVars == <<process, hf_env, hf_config, hf_loads, hf_calls>>
loginVars == <<store_builds, logins>>
toggleVars == <<toggles>>
stepVars == <<configVars, loginVars, toggleVars>>
vars == <<tokenVars, authVars, storyVars, textVars, stepVars>>

(***************************************************************************)
(* Characters and bytes                                                    *)
(***************************************************************************)

\* ASCII 32..95 and 97..126, in code order.
AsciiLow == " !\"#$%&'(" \o ")*+,-./0123456789:;<=>?@ABCDEFGHIJKLMNOPQRSTUVWXYZ[\\]^_"
AsciiHigh == "abcdefghijklmnopqrstuvwxyz{|}~"

CharAt(s, i) == SubSeq(s, i, i)

CharsOf(s) == {CharAt(s, i) : i \in 1..Len(s)}

\* A character outside ASCII, as a client can put one into a header.
NonAscii == "é"

\* Its upper case.
NonAsciiUpper == "É"

\* U+007F DELETE, a control character that is not whitespace, and U+00A0
\* NO-BREAK SPACE, whitespace that is not a control character.
Del == ""
Nbsp == " "

AsciiLowChars == CharsOf(AsciiLow)
AsciiHighChars == CharsOf(AsciiHigh)

AllChars == AsciiLowChars \cup AsciiHighChars \cup {"\t", "\n", "\r", NonAscii}

CharCode ==
    [c \in AllChars |->
        IF c \in AsciiLowChars
        THEN 31 + (CHOOSE i \in 1..Len(AsciiLow) : CharAt(AsciiLow, i) = c)
        ELSE IF c \in AsciiHighChars
        THEN 96 + (CHOOSE i \in 1..Len(AsciiHigh) : CharAt(AsciiHigh, i) = c)
        ELSE IF c = "\t" THEN 9
        ELSE IF c = "\n" THEN 10
        ELSE IF c = "\r" THEN 13
        ELSE 233]

Ord(c) == CharCode[c]

\* The character of a byte; bytes with no character in the table give "?".
Chr(b) ==
    IF b >= 32 /\ b <= 95 THEN CharAt(AsciiLow, b - 31)
    ELSE IF b >= 97 /\ b <= 126 THEN CharAt(AsciiHigh, b - 96)
    ELSE IF b = 9 THEN "\t"
    ELSE IF b = 10 THEN "\n"
    ELSE IF b = 13 THEN "\r"
    ELSE "?"

IsAscii(s) == \A i \in 1..Len(s) : Ord(CharAt(s, i)) < 128

\* str.encode("ascii") / str.encode("utf-8") of ASCII text: one byte a character.
EncodeAscii(s) == [i \in 1..Len(s) |-> Ord(CharAt(s, i))]

\* "".join(f[lo..hi]), halving the range so that the evaluation stays shallow.
RECURSIVE Concat(_, _, _)
Concat(f, lo, hi) ==
    IF lo > hi THEN ""
    ELSE IF lo = hi THEN f[lo]
    ELSE LET mid == (lo + hi) \div 2
         IN Concat(f, lo, mid) \o Concat(f, mid + 1, hi)

\* The text made of g(c) for each character c of s.
StrMap(s, g(_)) ==
    LET f == [i \in 1..Len(s) |-> g(CharAt(s, i))] IN Concat(f, 1, Len(s))

DecodeAscii(bs) ==
    LET f == [i \in 1..Len(bs) |-> Chr(bs[i])] IN Concat(f, 1, Len(bs))

\* sum(f[lo..hi])
RECURSIVE SumRange(_, _, _)
SumRange(f, lo, hi) ==
    IF lo > hi THEN 0
    ELSE IF lo = hi THEN f[lo]
    ELSE LET mid == (lo + hi) \div 2
         IN SumRange(f, lo, mid) + SumRange(f, mid + 1, hi)

SetMax(S) == CHOOSE m \in S : \A x \in S : x <= m
SetMin(S) == CHOOSE m \in S : \A x \in S : m <= x

(***************************************************************************)
(* base64 (the standard library's, as _b64url_encode/_b64url_decode use it)*)
(***************************************************************************)

B64Std == "ABCDEFGHIJKLMNOPQRSTUVWXYZabcdefghijklmnopqrstuvwxyz0123456789+/"

\* The alphabet as bytes: the byte of each 6-bit value, and the value of each byte.
B64Code == [v \in 0..63 |-> Ord(CharAt(B64Std, v + 1))]

B64Bytes == {B64Code[v] : v \in 0..63}

B64Value == [b \in B64Bytes |-> CHOOSE v \in 0..63 : B64Code[v] = b]

\* ord("=")
PadByte == 61

\* base64.b64encode: three bytes a group of four characters, "=" padded.
b64encode(bs) ==
    LET n == Len(bs)
        At(i) == IF i <= n THEN bs[i] ELSE 0
        Out(k) ==
            LET g == 3 * ((k - 1) \div 4)
                r == (k - 1) % 4
            IN IF r = 0 THEN B64Code[At(g + 1) \div 4]
               ELSE IF r = 1 THEN B64Code[(At(g + 1) % 4) * 16 + At(g + 2) \div 16]
               ELSE IF r = 2 THEN
                    IF g + 2 > n THEN PadByte
                    ELSE B64Code[(At(g + 2) % 16) * 4 + At(g + 3) \div 64]
               ELSE IF g + 3 > n THEN PadByte
               ELSE B64Code[At(g + 3) % 64]
    IN [k \in 1..(4 * ((n + 2) \div 3)) |-> Out(k)]

\* bytes.translate of the url-safe alphabet: "+" <-> "-", "/" <-> "_".
Translate(bs, from, to) ==
    LET f1 == Ord(CharAt(from, 1))
        f2 == Ord(CharAt(from, 2))
        t1 == Ord(CharAt(to, 1))
        t2 == Ord(CharAt(to, 2))
    IN [i \in 1..Len(bs) |-> IF bs[i] = f1 THEN t1 ELSE IF bs[i] = f2 THEN t2 ELSE bs[i]]

urlsafe_b64encode(bs) == Translate(b64encode(bs), "+/", "-_")

\* bytes.rstrip(b"=")
RStripPad(bs) ==
    SubSeq(bs, 1, SetMax({0} \cup {i \in 1..Len(bs) : bs[i] # PadByte}))

b64url_encode(bs) == DecodeAscii(RStripPad(urlsafe_b64encode(bs)))

\* binascii.a2b_base64, not strict.  Bytes outside the alphabet are skipped;
\* quad_pos is the number of alphabet bytes read so far modulo 4; an "=" read
\* at quad_pos 3, or the second "=" in a row (skipped bytes aside) at
\* quad_pos 2, ends the input; the bits left over in the last byte are
\* dropped; input that ends inside a quad is an error.

\* The positions of the alphabet bytes of bs, in order.
DataPositions(bs) == SelectSeq([i \in 1..Len(bs) |-> i], LAMBDA i : bs[i] \in B64Bytes)

\* The number of alphabet bytes before position i.
DataBefore(data, i) == Cardinality({k \in 1..Len(data) : data[k] < i})

\* The number of "=" from the last alphabet byte before i up to i.
PadsAt(bs, data, nb, i) ==
    Cardinality({j \in ((IF nb = 0 THEN 0 ELSE data[nb]) + 1)..i : bs[j] = PadByte})

\* The "=" at position i ends the input, nb alphabet bytes having been read.
StopsAt(bs, data, nb, i) ==
    /\ bs[i] = PadByte
    /\ nb % 4 >= 2
    /\ (nb % 4) + PadsAt(bs, data, nb, i) >= 4

\* The position of the "=" that ends the input, Len(bs) + 1 when none does.
StopIndex(bs, data) ==
    SetMin({Len(bs) + 1} \cup {i \in 1..Len(bs) : StopsAt(bs, data, DataBefore(data, i), i)})

\* Byte k of the 6-bit values vals, four values giving three bytes.
B64Byte(vals, k) ==
    IF (k - 1) % 3 = 0
    THEN vals[4 * ((k - 1) \div 3) + 1] * 4 + vals[4 * ((k - 1) \div 3) + 2] \div 16
    ELSE IF (k - 1) % 3 = 1
    THEN (vals[4 * ((k - 1) \div 3) + 2] % 16) * 16 + vals[4 * ((k - 1) \div 3) + 3] \div 4
    ELSE (vals[4 * ((k - 1) \div 3) + 3] % 4) * 64 + vals[4 * ((k - 1) \div 3) + 4]

\* The bytes of the values read; an error when the input was not ended by
\* padding and stops inside a quad.
A2bBytes(vals, stopped) ==
    IF stopped \/ Len(vals) % 4 = 0
    THEN [ok |-> TRUE, bytes |-> [k \in 1..((Len(vals) * 6) \div 8) |-> B64Byte(vals, k)]]
    ELSE [ok |-> FALSE, bytes |-> <<>>]

A2bUpTo(bs, data, stop) ==
    A2bBytes([k \in 1..DataBefore(data, stop) |-> B64Value[bs[data[k]]]], stop <= Len(bs))

A2bData(bs, data) == A2bUpTo(bs, data, StopIndex(bs, data))

a2b_base64(bs) == A2bData(bs, DataPositions(bs))

\* base64.urlsafe_b64decode of a str: ValueError for a non-ASCII character,
\* then translate "-_" to "+/" and decode.
urlsafe_b64decode(s) ==
    IF ~IsAscii(s) THEN [ok |-> FALSE, bytes |-> <<>>]
    ELSE a2b_base64(Translate(EncodeAscii(s), "-_", "+/"))

Repeat(c, n) == LET f == [i \in 1..n |-> c] IN Concat(f, 1, n)

b64url_decode(data) ==
    urlsafe_b64decode(data \o Repeat("=", (4 - (Len(data) % 4)) % 4))

(***************************************************************************)
(* HMAC-SHA256 and PBKDF2, as far as the code depends on them              *)
(***************************************************************************)

\* hashlib.sha256().digest_size.
DigestLen == 32

\* A keyed digest standing for hmac.new(key, msg, hashlib.sha256).digest():
\* DigestLen bytes that depend on every character of key and msg.  Two
\* messages that differ in one character never share a digest (each weight
\* is odd and the modulus a power of two), which is what the code relies on.
Absorb(s) ==
    LET f == [i \in 1..Len(s) |-> Ord(CharAt(s, i)) * (2 * i + 1)]
    IN SumRange(f, 1, Len(s)) % 65536

hmac_sha256(key, msg) ==
    LET h == (Absorb(key) * 251 + Absorb(msg)) % 65536
    IN [j \in 1..DigestLen |->
            IF j = 1 THEN h % 256
            ELSE IF j = 2 THEN h \div 256
            ELSE (h * j + j) % 256]

(***************************************************************************)
(* JSON, for flat objects of strings, integers and null                    *)
(***************************************************************************)

JStr(s) == [t |-> "str", s |-> s, n |-> 0]
JInt(n) == [t |-> "int", s |-> "", n |-> n]
JNull == [t |-> "null", s |-> "", n |-> 0]

Digits == "0123456789"
DigitChars == CharsOf(Digits)

RECURSIVE NatToStr(_)
NatToStr(n) ==
    IF n < 10 THEN CharAt(Digits, n + 1)
    ELSE NatToStr(n \div 10) \o CharAt(Digits, (n % 10) + 1)

IntToStr(n) == IF n < 0 THEN "-" \o NatToStr(0 - n) ELSE NatToStr(n)

\* The string escapes json.dumps applies to printable ASCII.
RECURSIVE JsonEscape(_)
JsonEscape(s) ==
    IF Len(s) = 0 THEN ""
    ELSE LET c == CharAt(s, 1)
         IN (IF c = "\"" \/ c = "\\" THEN "\\" \o c ELSE c)
                \o JsonEscape(SubSeq(s, 2, Len(s)))

JsonValue(v) ==
    IF v.t = "str" THEN "\"" \o JsonEscape(v.s) \o "\""
    ELSE IF v.t = "int" THEN IntToStr(v.n)
    ELSE "null"

\* json.dumps(obj, separators=(",", ":")) of a dict given as <<key, value>>
\* pairs in insertion order.
RECURSIVE JsonMembers(_)
JsonMembers(members) ==
    IF Len(members) = 0 THEN ""
    ELSE "\"" \o JsonEscape(members[1][1]) \o "\":" \o JsonValue(members[1][2])
            \o (IF Len(members) > 1 THEN "," ELSE "")
            \o JsonMembers(Tail(members))

json_dumps(members) == "{" \o JsonMembers(members) \o "}"

IsWs(c) == c \in {" ", "\t", "\n", "\r"}

RECURSIVE SkipWs(_, _)
SkipWs(s, i) == IF i <= Len(s) /\ IsWs(CharAt(s, i)) THEN SkipWs(s, i + 1) ELSE i

ParseFail == [ok |-> FALSE, pos |-> 0, val |-> JNull]

\* A JSON string starting after its opening quote, at i.
RECURSIVE ParseStringBody(_, _, _)
ParseStringBody(s, i, acc) ==
    IF i > Len(s) THEN ParseFail
    ELSE LET c == CharAt(s, i) IN
        IF c = "\"" THEN [ok |-> TRUE, pos |-> i + 1, val |-> JStr(acc)]
        ELSE IF c = "\\" THEN
            IF i + 1 <= Len(s) /\ CharAt(s, i + 1) \in {"\"", "\\", "/"}
            THEN ParseStringBody(s, i + 2, acc \o CharAt(s, i + 1))
            ELSE ParseFail
        ELSE IF Ord(c) < 32 THEN ParseFail
        ELSE ParseStringBody(s, i + 1, acc \o c)

RECURSIVE ParseDigits(_, _, _)
ParseDigits(s, i, acc) ==
    IF i <= Len(s) /\ CharAt(s, i) \in DigitChars
    THEN ParseDigits(s, i + 1, acc * 10 + (Ord(CharAt(s, i)) - 48))
    ELSE [pos |-> i, n |-> acc]

\* An integer: "-"? then "0" or a digit string without a leading zero; a
\* fraction or an exponent after it is outside this parser.  j is the position
\* of the first digit and d what ParseDigits read from there.
ParseNumberEnd(s, j, neg, d) ==
    IF d.pos = j THEN ParseFail
    ELSE IF CharAt(s, j) = "0" /\ d.pos > j + 1 THEN ParseFail
    ELSE IF d.pos <= Len(s) /\ CharAt(s, d.pos) \in {".", "e", "E"} THEN ParseFail
    ELSE [ok |-> TRUE, pos |-> d.pos, val |-> JInt(IF neg THEN 0 - d.n ELSE d.n)]

ParseNumberFrom(s, j, neg) == ParseNumberEnd(s, j, neg, ParseDigits(s, j, 0))

ParseSigned(s, i, neg) == ParseNumberFrom(s, IF neg THEN i + 1 ELSE i, neg)

ParseNumber(s, i) == ParseSigned(s, i, i <= Len(s) /\ CharAt(s, i) = "-")

ParseValue(s, i) ==
    IF i > Len(s) THEN ParseFail
    ELSE IF CharAt(s, i) = "\"" THEN ParseStringBody(s, i + 1, "")
    ELSE IF i + 3 <= Len(s) /\ SubSeq(s, i, i + 3) = "null"
    THEN [ok |-> TRUE, pos |-> i + 4, val |-> JNull]
    ELSE ParseNumber(s, i)

MembersFail == [ok |-> FALSE, pos |-> 0, members |-> <<>>]

\* The members of an object after "{" or ",": "key" : value, then "," or "}".
RECURSIVE ParseMembers(_, _, _)

\* After a member, at e0: "}" ends the object, "," leads to the next member.
ParseMemberEnd(s, e0, got) ==
    IF e0 > Len(s) THEN MembersFail
    ELSE IF CharAt(s, e0) = "}" THEN [ok |-> TRUE, pos |-> e0 + 1, members |-> got]
    ELSE IF CharAt(s, e0) = "," THEN ParseMembers(s, e0 + 1, got)
    ELSE MembersFail

\* The member's value v has been read.
ParseMemberValue(s, key, v, acc) ==
    IF ~v.ok THEN MembersFail
    ELSE ParseMemberEnd(s, SkipWs(s, v.pos), Append(acc, <<key.val.s, v.val>>))

\* After the key, at c0: ":" and the value.
ParseMemberColon(s, key, c0, acc) ==
    IF c0 > Len(s) \/ CharAt(s, c0) # ":" THEN MembersFail
    ELSE ParseMemberValue(s, key, ParseValue(s, SkipWs(s, c0 + 1)), acc)

\* The member's key has been read.
ParseMemberKey(s, key, acc) ==
    IF ~key.ok THEN MembersFail
    ELSE ParseMemberColon(s, key, SkipWs(s, key.pos), acc)

\* A member starts at k0 with the opening quote of its key.
ParseMemberAt(s, k0, acc) ==
    IF k0 > Len(s) \/ CharAt(s, k0) # "\"" THEN MembersFail
    ELSE ParseMemberKey(s, ParseStringBody(s, k0 + 1, ""), acc)

ParseMembers(s, i, acc) == ParseMemberAt(s, SkipWs(s, i), acc)

\* json.loads of bytes: [ok, dict, members].  ok is FALSE where json.loads
\* raises ValueError (bytes that are no UTF-8 text included); dict is FALSE
\* for a document that is not an object.
JsonBad == [ok |-> FALSE, dict |-> FALSE, members |-> <<>>]

\* A document that is a string, a number or null, read as v.
JsonScalar(s, v) ==
    IF v.ok /\ SkipWs(s, v.pos) > Len(s)
    THEN [ok |-> TRUE, dict |-> FALSE, members |-> <<>>]
    ELSE JsonBad

\* An object whose members m have been read.
JsonObjectEnd(s, m) ==
    IF m.ok /\ SkipWs(s, m.pos) > Len(s)
    THEN [ok |-> TRUE, dict |-> TRUE, members |-> m.members]
    ELSE JsonBad

\* An object opened at i, its first token at j.
JsonObject(s, i, j) ==
    IF j <= Len(s) /\ CharAt(s, j) = "}" THEN
        IF SkipWs(s, j + 1) > Len(s)
        THEN [ok |-> TRUE, dict |-> TRUE, members |-> <<>>]
        ELSE JsonBad
    ELSE JsonObjectEnd(s, ParseMembers(s, i + 1, <<>>))

\* The document, its first token at i.
JsonDocument(s, i) ==
    IF i > Len(s) THEN JsonBad
    ELSE IF CharAt(s, i) = "{" THEN JsonObject(s, i, SkipWs(s, i + 1))
    ELSE JsonScalar(s, ParseValue(s, i))

JsonText(s) == JsonDocument(s, SkipWs(s, 1))

json_loads(bs) ==
    IF \A k \in 1..Len(bs) :
            \/ bs[k] \in {9, 10, 13}
            \/ (bs[k] >= 32 /\ bs[k] <= 126 /\ bs[k] # 96)
    THEN JsonText(DecodeAscii(bs))
    ELSE JsonBad

\* dict.get(key): the value of the last member with that key, None (JNull)
\* when there is none.
DictGet(members, key) ==
    IF \E i \in 1..Len(members) : members[i][1] = key
    THEN members[SetMax({i \in 1..Len(members) : members[i][1] = key})][2]
    ELSE JNull

(***************************************************************************)
(* str methods                                                             *)
(***************************************************************************)

UpperLetters == "ABCDEFGHIJKLMNOPQRSTUVWXYZ"
LowerLetters == "abcdefghijklmnopqrstuvwxyz"
UpperChars == CharsOf(UpperLetters)
LowerChars == CharsOf(LowerLetters)

LowerChar(c) ==
    IF c \in UpperChars
    THEN CharAt(LowerLetters, CHOOSE i \in 1..26 : CharAt(UpperLetters, i) = c)
    ELSE IF c = NonAsciiUpper THEN NonAscii
    ELSE c

UpperChar(c) ==
    IF c \in LowerChars
    THEN CharAt(UpperLetters, CHOOSE i \in 1..26 : CharAt(LowerLetters, i) = c)
    ELSE IF c = NonAscii THEN NonAsciiUpper
    ELSE c

\* str.lower()
Lower(s) == StrMap(s, LowerChar)

\* Whitespace for str.strip() and the regular expressions' \s, as far as a
\* text of the model holds it.
StrSpaces == {" ", "\t", "\n", "\r", "\f", Nbsp}

\* str.strip()
Strip(s) ==
    LET keep == {i \in 1..Len(s) : CharAt(s, i) \notin StrSpaces}
    IN IF keep = {} THEN "" ELSE SubSeq(s, SetMin(keep), SetMax(keep))

\* str.split(sep) for a one-character separator: one part more than there
\* are separators.
Split(s, sep) ==
    LET at == SelectSeq([i \in 1..Len(s) |-> i], LAMBDA i : CharAt(s, i) = sep)
        cut == <<0>> \o at \o <<Len(s) + 1>>
    IN [k \in 1..(Len(at) + 1) |-> SubSeq(s, cut[k] + 1, cut[k + 1] - 1)]

(***************************************************************************)
(* Token module: utils/auth_service.py                                     *)
(***************************************************************************)

NoUser == [user_id |-> "", role |-> "", mode |-> ""]

\* An HTTPException(status_code, detail); kind names the failure for the model.
Raise(kind, status, detail) ==
    [ok |-> FALSE, kind |-> kind, status |-> status, detail |-> detail,
     user |-> NoUser, www |-> FALSE]

\* An exception no handler catches: the framework answers 500.
Unhandled(exc) == Raise(exc, 500, "Internal Server Error")

\* _get_auth_secret raising for a secret that is not configured.
SecretError ==
    Raise("ConfigError", 500, "KIDDOLAND_AUTH_SECRET is not configured on the server.")

Roles == {"Parent", "Teacher", "Admin", "Librarian"}
Modes == {"home", "institution"}

\* os.getenv("KIDDOLAND_AUTH_TTL_SECONDS", "3600"), as configured in the model.
TtlSeconds == 2

\* The payload with the time to live left out of exp.
TokenPayloadNoTtl(user, mode, t) ==
    <<  <<"sub", user.id>>, <<"role", user.role>>, <<"mode", JStr(mode)>>,
        <<"iat", JInt(t)>>, <<"exp", JInt(t)>>  >>

TokenPayload(user, mode, t) ==
    <<  <<"sub", user.id>>, <<"role", user.role>>, <<"mode", JStr(mode)>>,
        <<"iat", JInt(t)>>, <<"exp", JInt(t + TtlSeconds)>>  >>

\* The token text for an encoded payload segment: payload "." signature.
SignedToken(payload_b64, key) ==
    payload_b64 \o "." \o b64url_encode(hmac_sha256(key, payload_b64))

create_access_token(user, mode, t, key) ==
    LET payload_b64 == b64url_encode(EncodeAscii(json_dumps(TokenPayload(user, mode, t))))
    IN IF key = "" THEN [ok |-> FALSE, token |-> "", expires_in |-> 0, error |-> SecretError]
       ELSE [ok |-> TRUE, token |-> SignedToken(payload_b64, key),
             expires_in |-> TtlSeconds, error |-> SecretError]

\* Python truth value of a decoded JSON value.
Falsy(v) == v.t = "null" \/ (v.t = "str" /\ v.s = "") \/ (v.t = "int" /\ v.n = 0)

\* hmac.compare_digest with every signature taken for equal.
compare_digest_always(a, b) == TRUE

\* hmac.compare_digest(a, b)
compare_digest(a, b) == a = b

\* The expiry test with the last valid second taken for expired.
ExpiredAtInclusive(exp, t) == exp.t # "int" \/ exp.n <= t

\* not isinstance(exp, int) or exp < int(time.time())
ExpiredAt(exp, t) == exp.t # "int" \/ exp.n < t

\* The role test with the membership test left out.
InvalidRoleNever(role) == FALSE

\* role not in {"Parent", "Teacher", "Admin", "Librarian"}
InvalidRole(role) == ~(role.t = "str" /\ role.s \in Roles)

\* mode not in {"home", "institution"}
InvalidMode(mode) == ~(mode.t = "str" /\ mode.s \in Modes)

\* verify_access_token from the claims read out of the payload on.
VerifyClaims(exp, role, mode, user_id, t) ==
    IF ExpiredAt(exp, t)
    THEN Raise("Expired", 401, "Token has expired.")
    ELSE IF Falsy(role) \/ Falsy(mode) \/ Falsy(user_id)
    THEN Raise("InvalidClaims", 401, "Token is missing required claims.")
    ELSE IF InvalidRole(role)
    THEN Raise("InvalidClaims", 401, "Token has an invalid role.")
    ELSE IF InvalidMode(mode)
    THEN Raise("InvalidClaims", 401, "Token has an invalid mode.")
    ELSE IF user_id.t # "str" THEN Unhandled("ValidationError")
    ELSE [ok |-> TRUE, kind |-> "Ok", status |-> 200, detail |-> "",
          user |-> [user_id |-> user_id.s, role |-> role.s, mode |-> mode.s],
          www |-> FALSE]

\* verify_access_token from the result of json.loads on; payload.get on a
\* document that is no object is an AttributeError.
VerifyPayload(payload, t) ==
    IF ~payload.ok THEN Raise("InvalidPayload", 401, "Invalid token payload.")
    ELSE IF ~payload.dict THEN Unhandled("AttributeError")
    ELSE VerifyClaims(DictGet(payload.members, "exp"), DictGet(payload.members, "role"),
                      DictGet(payload.members, "mode"), DictGet(payload.members, "sub"), t)

\* json.loads(_b64url_decode(payload_b64)), raw being the decoded segment.
LoadPayload(raw) == IF raw.ok THEN json_loads(raw.bytes) ELSE JsonBad

\* verify_access_token from the two signatures on.
VerifySignature(payload_b64, expected_signature, provided_signature, t) ==
    IF ~provided_signature.ok
    THEN Raise("InvalidSignature", 401, "Invalid token signature.")
    ELSE IF ~compare_digest(expected_signature, provided_signature.bytes)
    THEN Raise("InvalidSignature", 401, "Invalid token signature.")
    ELSE VerifyPayload(LoadPayload(b64url_decode(payload_b64)), t)

\* verify_access_token from the split token on; payload_b64.encode("ascii")
\* of a segment with a character outside ASCII is a UnicodeEncodeError.
VerifyParts(parts, t, key) ==
    IF Len(parts) # 2 THEN Raise("InvalidFormat", 401, "Invalid token format.")
    ELSE IF key = "" THEN SecretError
    ELSE IF ~IsAscii(parts[1]) THEN Unhandled("UnicodeEncodeError")
    ELSE VerifySignature(parts[1], hmac_sha256(key, parts[1]), b64url_decode(parts[2]), t)

verify_access_token(tok, t, key) == VerifyParts(Split(tok, "."), t, key)

\* The Authorization header as HTTPBearer(auto_error=False) hands it on.
NoCredentials == [present |-> FALSE, scheme |-> "", credentials |-> ""]
Bearer(tok) == [present |-> TRUE, scheme |-> "Bearer", credentials |-> tok]

\* get_current_user with the scheme of the credential left unchecked.
get_current_user_any_scheme(credentials, t, key) ==
    IF ~credentials.present
    THEN [Raise("Missing", 401, "Missing authorization token.") EXCEPT !.www = TRUE]
    ELSE verify_access_token(credentials.credentials, t, key)

get_current_user(credentials, t, key) ==
    IF ~credentials.present \/ Lower(credentials.scheme) # "bearer"
    THEN [Raise("Missing", 401, "Missing authorization token.") EXCEPT !.www = TRUE]
    ELSE verify_access_token(credentials.credentials, t, key)

(***************************************************************************)
(* The auth service and the story handlers at rest                         *)
(***************************************************************************)

\* Optional[Dict]: None, for the user records of the auth service.
NoCredential ==
    [found |-> FALSE, id |-> "", email |-> "", password_hash |-> <<>>,
     password_salt |-> <<>>, role |-> "", modes |-> <<>>]

\* _user_cache = None.
NoCache == [loaded |-> FALSE, users |-> <<>>]

\* The requests that may be inside register_user at the same time.
Requests == {1, 2}

\* A request that is not inside register_user.
NoPending == [pc |-> "idle", email |-> "", password |-> "", mode |-> "", role |-> ""]

\* No auth call answered yet.
NoAuthOutcome ==
    [call |-> "none", req |-> 0, ok |-> FALSE, kind |-> "none", status |-> 0,
     detail |-> "", user |-> NoCredential, email |-> "", password |-> "", mode |-> ""]

AuthIdle ==
    /\ mongo_configured = FALSE
    /\ users_collection = {}
    /\ auth_users_env = [set |-> FALSE, data |-> <<>>]
    /\ user_cache = NoCache
    /\ pending = [r \in Requests |-> NoPending]
    /\ authOutcome = NoAuthOutcome

\* No story request answered yet.
NoStoryOutcome ==
    [call |-> "none", bearer |-> "", authed |-> FALSE, user |-> "", age |-> 0, prompt |-> "",
     original |-> "", status |-> 0, detail |-> "", output |-> "", called |-> FALSE,
     sent |-> <<>>, upstream |-> "none", completed |-> FALSE, generated |-> "",
     persistence |-> "none", saved |-> FALSE, story |-> "", story_id |-> "",
     result |-> "none", items |-> <<>>]

StoryIdle ==
    /\ story_history = <<>>
    /\ story_ids = 0
    /\ storyOutcome = NoStoryOutcome

\* A Python value as a caller can pass it: a str, None, or an int.
PyStr(s) == [type |-> "str", value |-> s]
PyNone == [type |-> "NoneType", value |-> ""]
PyInt == [type |-> "int", value |-> "7"]

\* No call of a safety function made yet.
NoTextOutcome ==
    [call |-> "none", input |-> PyNone, text |-> "", safe |-> FALSE, age |-> 0, was |-> FALSE,
     name |-> "", reasons |-> <<>>]

TextIdle ==
    /\ argument = PyNone
    /\ textOutcome = NoTextOutcome

\* The threads of the worker pool that run the handlers, and the thread that
\* imports main.py.
Threads == {1, 2}
MainThread == SetMin(Threads) - 1

\* _HF_CONFIG = None
NoConfig == [set |-> FALSE, object |-> 0, api_token |-> "", api_url |-> "", model_id |-> ""]

\* HuggingFaceConfig(api_token=..., api_url=..., model_id=...): the object-th
\* object of the class made in this process.
HuggingFaceConfig(object, api_token, api_url, model_id) ==
    [set |-> TRUE, object |-> object, api_token |-> api_token, api_url |-> api_url,
     model_id |-> model_id]

\* An environment with the three variables set.
HfEnv == [HUGGINGFACE_API_TOKEN |-> " hf_x ", HUGGINGFACE_API_URL |-> "https://hf/v1",
          HUGGINGFACE_MODEL |-> "m"]

\* A thread that is not inside get_huggingface_config.
NoHfCall == [pc |-> "idle", loaded |-> NoConfig, got |-> NoConfig, raised |-> FALSE,
             calls |-> 0]

\* The process after main.py was imported with the environment HfEnv.
ConfigIdle ==
    /\ process = "serving"
    /\ hf_env = HfEnv
    /\ hf_config = HuggingFaceConfig(1, "hf_x", "https://hf/v1", "m")
    /\ hf_loads = 1
    /\ hf_calls = [t \in Threads \cup {MainThread} |-> NoHfCall]

\* A thread that is not inside authenticate_user.
NoLogin ==
    [pc |-> "idle", email |-> "", password |-> "", mode |-> "", built |-> <<>>,
     users |-> <<>>, done |-> FALSE, ok |-> FALSE, status |-> 0, subject |-> "",
     salt |-> <<>>, count |-> 0]

LoginIdle ==
    /\ store_builds = 0
    /\ logins = [t \in Threads |-> NoLogin]

\* A thread that is not inside toggle_story_favorite.
NoToggle ==
    [pc |-> "idle", user_id |-> "", story_id |-> "", timestamp_utc |-> 0,
     current_favorite |-> FALSE, exists |-> FALSE, stored |-> FALSE, done |-> FALSE,
     result |-> "none", count |-> 0, flips |-> 0]

ToggleIdle == toggles = [t \in Threads |-> NoToggle]

StepIdle == ConfigIdle /\ LoginIdle /\ ToggleIdle

(***************************************************************************)
(* The token module as a state machine: a client obtains one token (issued *)
(* by create_access_token, or put together by itself) and presents it to   *)
(* GET /auth/validate while the clock advances.                            *)
(***************************************************************************)

\* The last second of the clock.
MaxTime == 4

\* The configured KIDDOLAND_AUTH_SECRET, and a key the server does not use.
AuthSecret == "k3y"
OtherKey == "n0t"

\* No call answered in the current second.
NoOutcome ==
    [ok |-> FALSE, kind |-> "none", status |-> 0, detail |-> "", user |-> NoUser,
     www |-> FALSE, call |-> "none"]

\* The response to a call.
Response(r, call) ==
    [ok |-> r.ok, kind |-> r.kind, status |-> r.status, detail |-> r.detail,
     user |-> r.user, www |-> r.www, call |-> call]

\* What is known of the held token from the way it was made.
NoOrigin ==
    [kind |-> "none", sub |-> "", role |-> "", mode |-> "", iat |-> 0,
     format |-> "two", sig |-> "good", parses |-> TRUE, exp |-> "none",
     claims |-> "ok", base |-> "", pos |-> 0, expiredSeen |-> FALSE]

Subjects == {"u1", "u2"}
IssueRoles == Roles \cup {"Student"}
IssueModes == Modes \cup {"school"}

\* POST /auth/login or /auth/register reaching create_access_token for a
\* user record with this id and role.
Issue(sub, role, mode) ==
    /\ origin.kind = "none"
    /\ \E r \in {create_access_token([id |-> JStr(sub), role |-> JStr(role)], mode, now, secret)} :
          /\ token' = IF r.ok THEN r.token ELSE token
          /\ origin' = IF r.ok
                       THEN [NoOrigin EXCEPT !.kind = "issued", !.sub = sub, !.role = role,
                                             !.mode = mode, !.iat = now, !.base = r.token]
                       ELSE origin
          /\ outcome' = IF r.ok THEN [NoOutcome EXCEPT !.call = "create", !.ok = TRUE,
                                                       !.kind = "Ok", !.status = 200]
                        ELSE Response(r.error, "create")
    /\ UNCHANGED <<now, secret>>
    /\ UNCHANGED <<authVars, storyVars, textVars, stepVars>>

\* The second at which a crafted payload's exp lies.
CraftExp == 1

CraftClaims == {"ok", "nosub", "emptysub", "norole", "badrole", "nomode", "badmode"}

\* The members of a crafted payload: exp present or absent, one claim missing
\* or out of its set.
CraftPayload(exp, claims) ==
    (IF claims = "nosub" THEN <<>>
     ELSE << <<"sub", JStr(IF claims = "emptysub" THEN "" ELSE "u1")>> >>)
    \o (IF claims = "norole" THEN <<>>
        ELSE << <<"role", JStr(IF claims = "badrole" THEN "Student" ELSE "Parent")>> >>)
    \o (IF claims = "nomode" THEN <<>>
        ELSE << <<"mode", JStr(IF claims = "badmode" THEN "school" ELSE "home")>> >>)
    \o (IF exp = "absent" THEN <<>> ELSE << <<"exp", JInt(CraftExp)>> >>)

\* The parts of a crafted token joined: two parts, one or three.
CraftJoin(format, payload_b64, signature_b64) ==
    IF format = "one" THEN payload_b64 \o signature_b64
    ELSE IF format = "three" THEN payload_b64 \o "." \o signature_b64 \o "." \o signature_b64
    ELSE payload_b64 \o "." \o signature_b64

\* The signature segment of a crafted token: the server's, another key's or
\* text that is not base64.
CraftSignature(sig, payload_b64) ==
    IF sig = "junk" THEN "A"
    ELSE b64url_encode(hmac_sha256(IF sig = "good" THEN AuthSecret ELSE OtherKey, payload_b64))

CraftSigned(format, sig, payload_b64) ==
    CraftJoin(format, payload_b64, CraftSignature(sig, payload_b64))

\* A token put together outside create_access_token: the payload text parses
\* or not, the signature is the server's, another key's or not base64 at all,
\* and the token has two parts, one or three.
CraftToken(format, sig, parses, exp, claims) ==
    CraftSigned(format, sig,
        b64url_encode(EncodeAscii(IF parses THEN json_dumps(CraftPayload(exp, claims))
                                  ELSE "{\"sub\"")))

Craft(format, sig, parses, exp, claims) ==
    /\ origin.kind = "none"
    /\ token' = CraftToken(format, sig, parses, exp, claims)
    /\ origin' = [NoOrigin EXCEPT !.kind = "crafted", !.format = format, !.sig = sig,
                                  !.parses = parses, !.exp = exp, !.claims = claims]
    /\ outcome' = NoOutcome
    /\ UNCHANGED <<now, secret>>
    /\ UNCHANGED <<authVars, storyVars, textVars, stepVars>>

\* GET /auth/validate with "Authorization: Bearer <token>".
Validate ==
    /\ origin.kind # "none"
    /\ \E r \in {get_current_user(Bearer(token), now, secret)} :
          /\ outcome' = Response(r, "validate")
          /\ origin' = [origin EXCEPT !.expiredSeen = @ \/ r.kind = "Expired"]
    /\ UNCHANGED <<now, secret, token>>
    /\ UNCHANGED <<authVars, storyVars, textVars, stepVars>>

\* GET /auth/validate without an Authorization header (present = FALSE), or
\* with the held token under another scheme.
ValidateNoBearer(present) ==
    /\ outcome' = Response(get_current_user(IF present
                                             THEN [present |-> TRUE, scheme |-> "Basic",
                                                   credentials |-> token]
                                             ELSE NoCredentials,
                                             now, secret),
                           IF present THEN "otherscheme" ELSE "noheader")
    /\ UNCHANGED <<now, secret, token, origin>>
    /\ UNCHANGED <<authVars, storyVars, textVars, stepVars>>

\* A second passes; the response of the second before is gone.
Tick ==
    /\ now < MaxTime
    /\ now' = now + 1
    /\ outcome' = NoOutcome
    /\ UNCHANGED <<secret, token, origin>>
    /\ UNCHANGED <<authVars, storyVars, textVars, stepVars>>

TokenInit ==
    /\ AuthIdle
    /\ StoryIdle
    /\ TextIdle
    /\ StepIdle
    /\ now = 0
    /\ secret \in {"", AuthSecret}
    /\ token = ""
    /\ origin = NoOrigin
    /\ outcome = NoOutcome

TokenNext ==
    \/ Tick
    \/ \E sub \in Subjects, role \in IssueRoles, mode \in IssueModes : Issue(sub, role, mode)
    \/ \E format \in {"two", "one", "three"}, sig \in {"good", "wrongkey", "junk"},
          exp \in {"present", "absent"}, claims \in CraftClaims :
            Craft(format, sig, TRUE, exp, claims)
    \/ \E format \in {"two", "one", "three"}, sig \in {"good", "wrongkey", "junk"} :
            Craft(format, sig, FALSE, "absent", "ok")
    \/ Validate
    \/ \E present \in BOOLEAN : ValidateNoBearer(present)

SpecToken == TokenInit /\ [][TokenNext]_vars

(***************************************************************************)
(* A client that alters one character of an issued token before presenting *)
(* it.                                                                     *)
(***************************************************************************)

B64Url == "ABCDEFGHIJKLMNOPQRSTUVWXYZabcdefghijklmnopqrstuvwxyz0123456789-_"

\* The characters an altered position may hold: the token alphabet, the
\* separator, padding, the standard alphabet's "+" and "/", and two
\* characters of neither alphabet.
TamperChars == CharsOf(B64Url) \cup {".", "=", "+", "/", "!", NonAscii}

\* s with the character at position i replaced by c.
Alter(s, i, c) == SubSeq(s, 1, i - 1) \o c \o SubSeq(s, i + 1, Len(s))

\* GET /auth/validate with the issued token altered at position i.
PresentAltered(i, c) ==
    /\ origin.kind = "issued"
    /\ CharAt(token, i) # c
    /\ \E altered \in {Alter(token, i, c)} :
          /\ token' = altered
          /\ outcome' = Response(get_current_user(Bearer(altered), now, secret), "validate")
    /\ origin' = [origin EXCEPT !.kind = "altered", !.pos = i]
    /\ UNCHANGED <<now, secret>>
    /\ UNCHANGED <<authVars, storyVars, textVars, stepVars>>

TamperInit ==
    /\ AuthIdle
    /\ StoryIdle
    /\ TextIdle
    /\ StepIdle
    /\ now = 0
    /\ secret = AuthSecret
    /\ token = ""
    /\ origin = NoOrigin
    /\ outcome = NoOutcome

TamperNext ==
    \/ Issue("u1", "Parent", "home")
    \/ \E i \in 1..Len(token), c \in TamperChars : PresentAltered(i, c)

SpecTamper == TamperInit /\ [][TamperNext]_vars

(***************************************************************************)
(* Auth service: credentials, authenticate_user and register_user          *)
(***************************************************************************)

\* The argument of secrets.token_bytes.
SaltLen == 16

SaltA == [i \in 1..SaltLen |-> (7 * i) % 256]
SaltB == [i \in 1..SaltLen |-> (11 * i + 3) % 256]

\* secrets.token_bytes(16): any of these.
Salts == {SaltA, SaltB}

AbsorbBytes(bs) ==
    LET f == [i \in 1..Len(bs) |-> bs[i] * (2 * i + 1)]
    IN SumRange(f, 1, Len(bs)) % 65536

\* A digest standing for hashlib.pbkdf2_hmac("sha256", password, salt, 100_000):
\* DigestLen bytes that depend on every byte of the password and of the salt.
pbkdf2_hmac_sha256(password, salt) ==
    LET h == (AbsorbBytes(salt) * 241 + AbsorbBytes(password)) % 65536
    IN [j \in 1..DigestLen |->
            IF j = 1 THEN h % 256
            ELSE IF j = 2 THEN h \div 256
            ELSE (h * j + j) % 256]

hash_password(password, salt) == pbkdf2_hmac_sha256(EncodeAscii(password), salt)

verify_password(password, salt, expected_hash) ==
    compare_digest(hash_password(password, salt), expected_hash)

\* base64.b64decode of a str: ValueError for a non-ASCII character, then the
\* lenient decoder.
b64decode(s) ==
    IF ~IsAscii(s) THEN [ok |-> FALSE, bytes |-> <<>>]
    ELSE a2b_base64(EncodeAscii(s))

\* The elements of a list.
Range(seq) == {seq[i] : i \in 1..Len(seq)}

NoError == Raise("none", 0, "")

\* KIDDOLAND_AUTH_USERS not set.
NoEnvUsers == [set |-> FALSE, data |-> <<>>]

\* _deserialize_db_user, given the two decoded fields; None when one of them
\* does not decode.
DeserializedUser(doc, password_hash, password_salt) ==
    IF password_hash.ok /\ password_salt.ok
    THEN [found |-> TRUE, id |-> doc.id, email |-> doc.email,
          password_hash |-> password_hash.bytes, password_salt |-> password_salt.bytes,
          role |-> doc.role, modes |-> doc.modes]
    ELSE NoCredential

deserialize_db_user(doc) ==
    DeserializedUser(doc, b64decode(doc.password_hash), b64decode(doc.password_salt))

\* _get_mongo_collection is None when MONGODB_URI is not set or the server
\* (or its create_index) fails; otherwise find_one({"email": email}).
load_user_from_db(email, configured, collection) ==
    IF ~configured THEN NoCredential
    ELSE IF \A d \in collection : d.email # email THEN NoCredential
    ELSE deserialize_db_user(CHOOSE d \in collection : d.email = email)

DemoSpecs ==
    <<  [email |-> "parent@kiddoland.local", password |-> "Parent123!",
         role |-> "Parent", modes |-> <<"home">>],
        [email |-> "teacher@kiddoland.local", password |-> "Teacher123!",
         role |-> "Teacher", modes |-> <<"institution">>],
        [email |-> "admin@kiddoland.local", password |-> "Admin123!",
         role |-> "Admin", modes |-> <<"institution">>]  >>

\* _load_demo_users, with the salts and the uuid4 ids it draws.
load_demo_users(salts, ids) ==
    [i \in 1..Len(DemoSpecs) |->
        [found |-> TRUE, id |-> ids[i], email |-> DemoSpecs[i].email,
         password_hash |-> hash_password(DemoSpecs[i].password, salts[i]),
         password_salt |-> salts[i], role |-> DemoSpecs[i].role,
         modes |-> DemoSpecs[i].modes]]

\* entry.get(key, "")
EntryGet(entry, key) == IF key \in DOMAIN entry THEN entry[key] ELSE ""

HasStoredHash(entry) ==
    "password_hash" \in DOMAIN entry /\ "password_salt" \in DOMAIN entry

\* What is wrong with an entry of KIDDOLAND_AUTH_USERS, "" when nothing is.
EntryError(entry) ==
    IF Lower(Strip(EntryGet(entry, "email"))) = "" \/ Strip(EntryGet(entry, "role")) = ""
    THEN "Each user entry must include email and role."
    ELSE IF HasStoredHash(entry)
    THEN IF b64decode(entry.password_hash).ok /\ b64decode(entry.password_salt).ok
         THEN "" ELSE "binascii.Error"
    ELSE IF "password" \in DOMAIN entry THEN ""
    ELSE "Each user entry must include password or password_hash/password_salt."

\* The user record _load_users_from_env appends for a sound entry.
EntryUser(entry, salt, id) ==
    [found |-> TRUE,
     id |-> IF EntryGet(entry, "id") # "" THEN entry.id ELSE id,
     email |-> Lower(Strip(entry.email)),
     password_hash |-> IF HasStoredHash(entry) THEN b64decode(entry.password_hash).bytes
                       ELSE hash_password(entry.password, salt),
     password_salt |-> IF HasStoredHash(entry) THEN b64decode(entry.password_salt).bytes
                       ELSE salt,
     role |-> Strip(entry.role),
     modes |-> IF "modes" \in DOMAIN entry THEN entry.modes ELSE <<>>]

\* The error of the first unsound entry.
EntriesError(detail) ==
    [ok |-> FALSE, users |-> <<>>,
     error |-> IF detail = "binascii.Error" THEN Unhandled(detail)
               ELSE Raise("ConfigError", 500, detail)]

\* _load_users_from_env for the decoded list.
load_users_from_env(data, salts, ids) ==
    IF \E i \in 1..Len(data) : EntryError(data[i]) # ""
    THEN EntriesError(EntryError(data[SetMin({i \in 1..Len(data) : EntryError(data[i]) # ""})]))
    ELSE [ok |-> TRUE, users |-> [i \in 1..Len(data) |-> EntryUser(data[i], salts[i], ids[i])],
          error |-> NoError]

\* The list just built becomes _user_cache.
Cached(loaded) ==
    [ok |-> loaded.ok, users |-> loaded.users, error |-> loaded.error,
     cache |-> IF loaded.ok THEN [loaded |-> TRUE, users |-> loaded.users] ELSE NoCache]

\* _get_user_store: the cached list, or the list built now and cached.
get_user_store(cache, env, salts, ids) ==
    IF cache.loaded
    THEN [ok |-> TRUE, users |-> cache.users, error |-> NoError, cache |-> cache]
    ELSE IF env.set THEN Cached(load_users_from_env(env.data, salts, ids))
    ELSE Cached([ok |-> TRUE, users |-> load_demo_users(salts, ids), error |-> NoError])

\* The result of authenticate_user; fallback tells whether _get_user_store ran.
AuthOk(user, fallback) ==
    [ok |-> TRUE, error |-> NoError, user |-> user, fallback |-> fallback]

AuthFail(error, fallback) ==
    [ok |-> FALSE, error |-> error, user |-> NoCredential, fallback |-> fallback]

\* authenticate_user, lines 227-234.
CheckModes(user, mode, fallback) ==
    IF user.modes # <<>> /\ mode \notin Range(user.modes)
    THEN AuthFail(Raise("Forbidden", 403, "User is not permitted to access this mode."),
                  fallback)
    ELSE AuthOk(user, fallback)

\* The mode is looked at before the password.
CheckUserModesFirst(user, password, mode, fallback) ==
    IF ~user.found
    THEN AuthFail(Raise("UnknownEmail", 401, "Invalid email or password."), fallback)
    ELSE IF ~CheckModes(user, mode, fallback).ok
    THEN CheckModes(user, mode, fallback)
    ELSE IF ~verify_password(password, user.password_salt, user.password_hash)
    THEN AuthFail(Raise("WrongPassword", 401, "Invalid email or password."), fallback)
    ELSE AuthOk(user, fallback)

\* authenticate_user, lines 215-234.
CheckUser(user, password, mode, fallback) ==
    IF ~user.found
    THEN AuthFail(Raise("UnknownEmail", 401, "Invalid email or password."), fallback)
    ELSE IF ~verify_password(password, user.password_salt, user.password_hash)
    THEN AuthFail(Raise("WrongPassword", 401, "Invalid email or password."), fallback)
    ELSE CheckModes(user, mode, fallback)

\* next((item for item in users if item["email"] == normalized_email), None)
FindUser(users, email) ==
    IF \A i \in 1..Len(users) : users[i].email # email THEN NoCredential
    ELSE users[SetMin({i \in 1..Len(users) : users[i].email = email})]

\* An email the fallback list does not hold gets an answer of its own.
FromStoreNotFound(store, email, password, mode) ==
    IF ~store.ok THEN AuthFail(store.error, TRUE)
    ELSE IF ~FindUser(store.users, email).found
    THEN AuthFail(Raise("UnknownEmail", 404, "User not found."), TRUE)
    ELSE CheckUser(FindUser(store.users, email), password, mode, TRUE)

FromStore(store, email, password, mode) ==
    IF ~store.ok THEN AuthFail(store.error, TRUE)
    ELSE CheckUser(FindUser(store.users, email), password, mode, TRUE)

FromDb(db_user, store, email, password, mode) ==
    IF db_user.found THEN CheckUser(db_user, password, mode, FALSE)
    ELSE FromStore(store, email, password, mode)

Authenticated(normalized_email, password, mode, configured, collection, store) ==
    FromDb(load_user_from_db(normalized_email, configured, collection), store,
           normalized_email, password, mode)

\* authenticate_user; store is what _get_user_store() gives when it is called.
authenticate_user(email, password, mode, configured, collection, store) ==
    Authenticated(Lower(Strip(email)), password, mode, configured, collection, store)

\* register_user up to its existence check (lines 238-251).
register_user_check(email, configured, collection) ==
    IF ~configured
    THEN Raise("ServiceUnavailable", 503, "MongoDB is not configured for registration.")
    ELSE IF \E d \in collection : d.email = Lower(Strip(email))
    THEN Raise("Conflict", 409, "An account with this email already exists.")
    ELSE NoError

\* The document register_user builds (lines 253-263).
UserDoc(id, email, password, mode, role, salt, t) ==
    [id |-> id, email |-> email,
     password_hash |-> DecodeAscii(b64encode(hash_password(password, salt))),
     password_salt |-> DecodeAscii(b64encode(salt)),
     role |-> role, modes |-> <<mode>>, created_at |-> t]

\* The ObjectId the server gives the next document.
ObjectId(collection) == "oid" \o NatToStr(Cardinality(collection) + 1)

\* collection.insert_one under the unique index on email: DuplicateKeyError
\* when a document with the email is there.
insert_one(collection, doc) ==
    IF \E d \in collection : d.email = doc.email
    THEN [ok |-> FALSE, collection |-> collection]
    ELSE [ok |-> TRUE, collection |-> collection \cup {doc}]

\* What register_user returns for the inserted document.
RegisteredUser(doc) ==
    [found |-> TRUE, id |-> doc.id, email |-> doc.email, password_hash |-> <<>>,
     password_salt |-> <<>>, role |-> doc.role, modes |-> doc.modes]

(***************************************************************************)
(* The auth service as a state machine: logins, and registrations that     *)
(* may overlap between the existence check and the insert.                 *)
(***************************************************************************)

AuthResponse(call, req, r, email, password, mode) ==
    [call |-> call, req |-> req, ok |-> r.ok,
     kind |-> IF r.ok THEN "Ok" ELSE r.error.kind,
     status |-> IF r.ok THEN 200 ELSE r.error.status,
     detail |-> IF r.ok THEN "" ELSE r.error.detail,
     user |-> r.user, email |-> email, password |-> password, mode |-> mode]

\* uuid.uuid4() for each entry of a list built now.
FreshIds == <<"uuid-1", "uuid-2", "uuid-3">>

\* What _get_user_store() may give when called now.
UserStores ==
    IF user_cache.loaded THEN {get_user_store(user_cache, auth_users_env, <<>>, <<>>)}
    ELSE {get_user_store(user_cache, auth_users_env, salts, FreshIds) :
            salts \in [1..Len(FreshIds) -> Salts]}

\* A call of authenticate_user (POST /auth/login).
Authenticate(email, password, mode) ==
    /\ authOutcome = NoAuthOutcome
    /\ \E store \in UserStores :
         \E r \in {authenticate_user(email, password, mode, mongo_configured,
                                     users_collection, store)} :
            /\ authOutcome' = AuthResponse("authenticate", 0, r, email, password, mode)
            /\ user_cache' = IF r.fallback THEN store.cache ELSE user_cache
    /\ UNCHANGED <<mongo_configured, users_collection, auth_users_env, pending>>
    /\ UNCHANGED <<tokenVars, storyVars, textVars, stepVars>>

\* Request r enters register_user (POST /auth/register) and gets as far as
\* the existence check.
RegisterCheck(r, email, password, mode, role) ==
    /\ authOutcome = NoAuthOutcome
    /\ pending[r].pc = "idle"
    /\ \E e \in {register_user_check(email, mongo_configured, users_collection)} :
         IF e.kind = "none"
         THEN /\ pending' = [pending EXCEPT ![r] =
                                [pc |-> "insert", email |-> Lower(Strip(email)),
                                 password |-> password, mode |-> mode, role |-> role]]
              /\ authOutcome' = NoAuthOutcome
         ELSE /\ pending' = pending
              /\ authOutcome' = AuthResponse("register", r, AuthFail(e, FALSE),
                                             email, password, mode)
    /\ UNCHANGED <<mongo_configured, users_collection, auth_users_env, user_cache>>
    /\ UNCHANGED <<tokenVars, storyVars, textVars, stepVars>>

\* Request r goes on from the existence check: salt, hash, insert_one, return
\* (lines 253-271).
RegisterInsert(r) ==
    /\ authOutcome = NoAuthOutcome
    /\ pending[r].pc = "insert"
    /\ \E salt \in Salts :
         \E res \in {insert_one(users_collection,
                                UserDoc(ObjectId(users_collection), pending[r].email,
                                        pending[r].password, pending[r].mode,
                                        pending[r].role, salt, now))} :
            /\ users_collection' = res.collection
            /\ authOutcome' =
                 AuthResponse("register", r,
                              IF res.ok
                              THEN AuthOk(RegisteredUser(
                                     CHOOSE d \in res.collection : d.email = pending[r].email),
                                     FALSE)
                              ELSE AuthFail(Unhandled("DuplicateKeyError"), FALSE),
                              pending[r].email, pending[r].password, pending[r].mode)
    /\ pending' = [pending EXCEPT ![r] = NoPending]
    /\ UNCHANGED <<mongo_configured, auth_users_env, user_cache>>
    /\ UNCHANGED <<tokenVars, storyVars, textVars, stepVars>>

\* The response of the last call reaches the client; the next call is looked
\* at from here.
AuthRespond ==
    /\ authOutcome # NoAuthOutcome
    /\ authOutcome' = NoAuthOutcome
    /\ UNCHANGED <<mongo_configured, users_collection, auth_users_env, user_cache, pending>>
    /\ UNCHANGED <<tokenVars, storyVars, textVars, stepVars>>

\* A KIDDOLAND_AUTH_USERS list: an entry with a plain password and no modes,
\* and an entry with a stored hash and salt, an id and one mode.
EnvUsersData ==
    <<  [email |-> " Eve@X.io ", role |-> " Teacher", password |-> "hunter22"],
        [email |-> "bob@x.io", role |-> "Admin", id |-> "env-2",
         password_hash |-> DecodeAscii(b64encode(hash_password("Parent123!", SaltB))),
         password_salt |-> DecodeAscii(b64encode(SaltB)),
         modes |-> <<"institution">>]  >>

LoginEmails == {" Ann@X.IO ", "parent@kiddoland.local", "eve@x.io", "BOB@x.io"}
Passwords == {"hunter22", "Parent123!"}
RegEmails == {"ann@x.io", " Ann@X.IO ", "Parent@Kiddoland.local"}
RegPasswords == {"hunter22"}
RegRoles == {"Teacher"}

TokenIdle ==
    /\ now = 0
    /\ secret = AuthSecret
    /\ token = ""
    /\ origin = NoOrigin
    /\ outcome = NoOutcome

AuthInit ==
    /\ TokenIdle
    /\ StoryIdle
    /\ TextIdle
    /\ StepIdle
    /\ mongo_configured \in BOOLEAN
    /\ users_collection = {}
    /\ auth_users_env \in {NoEnvUsers, [set |-> TRUE, data |-> EnvUsersData]}
    /\ user_cache = NoCache
    /\ pending = [r \in Requests |-> NoPending]
    /\ authOutcome = NoAuthOutcome

\* Logins, and one registration at a time.
AuthNext ==
    \/ \E email \in LoginEmails, password \in Passwords, mode \in Modes :
          Authenticate(email, password, mode)
    \/ \E email \in RegEmails, password \in RegPasswords, mode \in Modes, role \in RegRoles :
          RegisterCheck(1, email, password, mode, role)
    \/ RegisterInsert(1)
    \/ AuthRespond

SpecAuth == AuthInit /\ [][AuthNext]_vars

RegisterInit ==
    /\ TokenIdle
    /\ StoryIdle
    /\ TextIdle
    /\ StepIdle
    /\ mongo_configured \in BOOLEAN
    /\ users_collection = {}
    /\ auth_users_env = NoEnvUsers
    /\ user_cache = NoCache
    /\ pending = [r \in Requests |-> NoPending]
    /\ authOutcome = NoAuthOutcome

\* Registrations of two requests, in any interleaving of their steps.
RegisterNext ==
    \/ \E r \in Requests, email \in RegEmails, password \in RegPasswords, mode \in Modes,
          role \in RegRoles :
            RegisterCheck(r, email, password, mode, role)
    \/ \E r \in Requests : RegisterInsert(r)
    \/ AuthRespond

SpecRegister == RegisterInit /\ [][RegisterNext]_vars

(***************************************************************************)
(* Safety module: utils/safety_filter.py, and _extract_age_from_prompt of  *)
(* routers/ai.py.  A regular expression is followed through the text as    *)
(* the set of positions its match may have reached; positions count from 1 *)
(* and Len + 1 is the end of the text.                                     *)
(***************************************************************************)

\* \w
WordChars == UpperChars \cup LowerChars \cup DigitChars \cup {"_", NonAscii, NonAsciiUpper}

\* [\x00-\x1F\x7F], as far as a text of the model holds them.
ControlChars == {"\t", "\n", "\r", "\f", Del}

IsWordAt(s, j) == j >= 1 /\ j <= Len(s) /\ CharAt(s, j) \in WordChars

\* \b before position j.
WordBoundary(s, j) == IsWordAt(s, j - 1) # IsWordAt(s, j)

Positions(s) == 1..(Len(s) + 1)

\* \b at the positions of S.
AtBoundary(s, S) == {j \in S : WordBoundary(s, j)}

\* \s* from the positions of S.
SkipSpaces(s, S) ==
    {k \in Positions(s) : \E j \in S : j <= k /\ \A m \in j..(k - 1) : CharAt(s, m) \in StrSpaces}

\* One character of chars from the positions of S.
OneOf(s, S, chars) == {j + 1 : j \in {p \in S : p <= Len(s) /\ CharAt(s, p) \in chars}}

\* \s+ from the positions of S.
SkipSpaces1(s, S) == SkipSpaces(s, OneOf(s, S, StrSpaces))

\* The literal w from the positions of S.
Literal(s, S, w) ==
    {j + Len(w) : j \in {p \in S : p + Len(w) <= Len(s) + 1 /\ SubSeq(s, p, p + Len(w) - 1) = w}}

\* One of the literals of ws from the positions of S.
AnyLiteral(s, S, ws) == UNION {Literal(s, S, w) : w \in ws}

\* The keyword patterns of UNSAFE_KEYWORDS, in their order.
UNSAFE_KEYWORDS ==
    <<  {"murder", "kill", "blood", "gore", "torture", "weapon", "gun", "knife", "stab",
         "shoot"},
        {"sex", "sexual", "naked", "nude", "porn", "explicit"},
        {"fuck", "shit", "bitch", "damn", "hell", "ass", "crap"},
        {"suicide", "drug", "alcohol", "cigarette", "abuse"}  >>

\* re.search(r"(w1|w2|...)", s): some keyword anywhere in the text.
SearchKeywordsInside(s, ws) == AnyLiteral(s, Positions(s), ws) # {}

\* re.search(r"\b(w1|w2|...)\b", s): some keyword between two word boundaries.
SearchKeywords(s, ws) ==
    AtBoundary(s, AnyLiteral(s, AtBoundary(s, Positions(s)), ws)) # {}

\* The loop of is_content_safe over the lower-cased text.
SafeLowered(text_lower) ==
    \A k \in 1..Len(UNSAFE_KEYWORDS) : ~SearchKeywords(text_lower, UNSAFE_KEYWORDS[k])

is_content_safe(text) ==
    IF text = "" \/ Len(Strip(text)) = 0 THEN TRUE ELSE SafeLowered(Lower(text))

\* The orders in which the elements of a set may be listed.
RECURSIVE Orders(_)
Orders(S) ==
    IF S = {} THEN {<<>>}
    ELSE UNION {{<<x>> \o o : o \in Orders(S \ {x})} : x \in S}

\* ", ".join(tokens)
RECURSIVE JoinComma(_)
JoinComma(tokens) ==
    IF Len(tokens) = 0 THEN ""
    ELSE IF Len(tokens) = 1 THEN tokens[1]
    ELSE tokens[1] \o ", " \o JoinComma(Tail(tokens))

\* findall without the word boundaries: the keywords anywhere in the text.
MatchedTokensInside(text_lower, ws) == {w \in ws : SearchKeywordsInside(text_lower, {w})}

\* set(re.findall(r"\b(w1|w2|...)\b", text_lower)): a match lies between two
\* word boundaries and the keywords are made of word characters, so the
\* matches are the keywords that stand in the text as whole words.
MatchedTokens(text_lower, ws) == {w \in ws : SearchKeywords(text_lower, {w})}

\* The loop of get_unsafe_content_reasons from the k-th pattern on: one
\* message for each pattern with matches; the set is joined in the order
\* its iteration gives, which is any order.
RECURSIVE ReasonLists(_, _)
ReasonLists(text_lower, k) ==
    IF k > Len(UNSAFE_KEYWORDS) THEN {<<>>}
    ELSE IF MatchedTokens(text_lower, UNSAFE_KEYWORDS[k]) = {}
    THEN ReasonLists(text_lower, k + 1)
    ELSE {<<"Contains inappropriate keyword: " \o JoinComma(tokens)>> \o rest :
            tokens \in Orders(MatchedTokens(text_lower, UNSAFE_KEYWORDS[k])),
            rest \in ReasonLists(text_lower, k + 1)}

\* get_unsafe_content_reasons, as the set of the lists it may return.
get_unsafe_content_reasons(text) ==
    IF text = "" \/ Len(Strip(text)) = 0 THEN {<<>>} ELSE ReasonLists(Lower(text), 1)

\* The control characters are left in the text.
ControlKept(c) == c

ControlToSpace(c) == IF c \in ControlChars THEN " " ELSE c

\* re.sub(r"\s+", " ", s): the first character of each run of whitespace
\* stays, as a space.
CollapseSpaces(s) ==
    LET keep == SelectSeq([i \in 1..Len(s) |-> i],
                          LAMBDA i : \/ CharAt(s, i) \notin StrSpaces
                                     \/ i = 1
                                     \/ CharAt(s, i - 1) \notin StrSpaces)
        f == [k \in 1..Len(keep) |->
                IF CharAt(s, keep[k]) \in StrSpaces THEN " " ELSE CharAt(s, keep[k])]
    IN Concat(f, 1, Len(keep))

\* clean_text_for_model of a str.
clean_text_for_model(text) == Strip(CollapseSpaces(StrMap(text, ControlToSpace)))

\* Optional[int] None, and Optional[str] None.
NoAge == 0
NoName == ""

\* (\d{1,2}) at position d: the lengths to try, the longer first.
HasDigits(s, d, n) == d + n <= Len(s) + 1 /\ \A m \in d..(d + n - 1) : CharAt(s, m) \in DigitChars

\* \s*(?:years?\s*old|year\s*old)
YearsOld(s, S) ==
    Literal(s, SkipSpaces(s, AnyLiteral(s, SkipSpaces(s, S), {"year", "years"})), "old")

\* What follows the digits in each pattern of _extract_age_from_prompt.
AgeTail(s, S, k) ==
    IF k = 1
    THEN AtBoundary(s,
            Literal(s, SkipSpaces(s, OneOf(s, SkipSpaces(s,
                Literal(s, SkipSpaces(s, OneOf(s, SkipSpaces(s, S), {"-", " "})), "year")),
                {"-", " "})), "old"))
    ELSE IF k = 2
    THEN AtBoundary(s,
            YearsOld(s, S)
            \cup Literal(s, SkipSpaces(s, Literal(s, SkipSpaces(s, S), "yr")), "old")
            \cup Literal(s, SkipSpaces(s, S), "y/o"))
    ELSE IF k = 3
    THEN AtBoundary(s, S)
    ELSE AtBoundary(s, SkipSpaces(s, S) \cup YearsOld(s, S))

\* Where the digits may start in each pattern.
AgeHead(s, k) ==
    IF k = 1 \/ k = 2 THEN AtBoundary(s, Positions(s))
    ELSE IF k = 3 THEN SkipSpaces(s, Literal(s, AtBoundary(s, Positions(s)), "age"))
    ELSE SkipSpaces1(s, Literal(s, AtBoundary(s, Positions(s)), "for"))

\* The number of digits pattern k captures at d, 0 when it does not match there.
AgeDigits(s, d, k) ==
    IF HasDigits(s, d, 2) /\ AgeTail(s, {d + 2}, k) # {} THEN 2
    ELSE IF HasDigits(s, d, 1) /\ AgeTail(s, {d + 1}, k) # {} THEN 1
    ELSE 0

\* int(match.group(1)) for the leftmost match among the starts, -1 for no match.
AgeCaptured(s, starts, k) ==
    IF starts = {} THEN -1
    ELSE ParseDigits(SubSeq(s, SetMin(starts), SetMin(starts) + AgeDigits(s, SetMin(starts), k) - 1),
                     1, 0).n

\* re.search(patterns[k], prompt, re.IGNORECASE), on the lower-cased prompt.
AgeSearch(s, k) == AgeCaptured(s, {d \in AgeHead(s, k) : AgeDigits(s, d, k) > 0}, k)

\* The loop of _extract_age_from_prompt from pattern k on.
RECURSIVE AgeFrom(_, _)

\* The value pattern k captured is returned whatever it is.
AgeOrUnchecked(value, s, k) == IF value >= 0 THEN value ELSE AgeFrom(s, k + 1)

\* The value pattern k captured is returned when it is in range.
AgeOr(value, s, k) == IF value >= 1 /\ value <= 10 THEN value ELSE AgeFrom(s, k + 1)

AgeFrom(s, k) == IF k > 4 THEN NoAge ELSE AgeOr(AgeSearch(s, k), s, k)

extract_age_from_prompt(prompt) == AgeFrom(Lower(prompt), 1)

Letters == UpperChars \cup LowerChars
NameChars == Letters \cup {"'", "-"}

\* The words before the name in patterns 4 and 5.
KinWords == {"son", "daughter", "kid", "child"}

\* Where the name may start in each pattern of extract_child_name.
NameHead(s, k) ==
    IF k = 1 THEN SkipSpaces1(s, Literal(s, AtBoundary(s, Positions(s)), "named"))
    ELSE IF k = 2 THEN SkipSpaces1(s, Literal(s, AtBoundary(s, Positions(s)), "called"))
    ELSE IF k = 3
    THEN SkipSpaces1(s, Literal(s, SkipSpaces1(s,
            Literal(s, AtBoundary(s, Positions(s)), "name")), "is"))
    ELSE IF k = 4
    THEN SkipSpaces1(s, Literal(s, SkipSpaces1(s,
            AnyLiteral(s, AtBoundary(s, Positions(s)), KinWords)), "named"))
    ELSE IF k = 5
    THEN SkipSpaces1(s, AnyLiteral(s, AtBoundary(s, Positions(s)), KinWords))
    ELSE SkipSpaces1(s, Literal(s, AtBoundary(s, Positions(s)), "for"))

\* ([A-Za-z][A-Za-z'\-]{1,30})\b at p: the lengths that match.
NameLengths(s, p) ==
    {n \in 2..31 : /\ p + n <= Len(s) + 1
                   /\ CharAt(s, p) \in Letters
                   /\ \A m \in (p + 1)..(p + n - 1) : CharAt(s, m) \in NameChars
                   /\ WordBoundary(s, p + n)}

\* str.strip(chars)
StripChars(s, chars) ==
    LET keep == {i \in 1..Len(s) : CharAt(s, i) \notin chars}
    IN IF keep = {} THEN "" ELSE SubSeq(s, SetMin(keep), SetMax(keep))

\* str.capitalize()
Capitalize(s) ==
    IF s = "" THEN "" ELSE UpperChar(CharAt(s, 1)) \o Lower(SubSeq(s, 2, Len(s)))

disallowed ==
    {"a", "an", "the", "my", "our", "your", "their", "kid", "child", "son", "daughter",
     "boy", "girl", "story", "age", "years", "year", "old"}

\* match.group(1) of the leftmost match among the starts, the longest name
\* there; "" for no match.
NameCaptured(cleaned, lowered, starts) ==
    IF starts = {} THEN ""
    ELSE SubSeq(cleaned, SetMin(starts),
                SetMin(starts) + SetMax(NameLengths(lowered, SetMin(starts))) - 1)

\* re.search(patterns[k], cleaned, re.IGNORECASE)
NameSearch(cleaned, lowered, k) ==
    NameCaptured(cleaned, lowered, {p \in NameHead(lowered, k) : NameLengths(lowered, p) # {}})

\* The candidate of a capture, "" when there is no capture: no candidate is
\* skipped.
CandidateUnfiltered(capture) == StripChars(capture, {"-", "'"})

\* The candidate of a capture, "" when there is no capture or the candidate
\* is skipped.
Candidate(capture) ==
    IF Len(StripChars(capture, {"-", "'"})) < 2 THEN ""
    ELSE IF Lower(StripChars(capture, {"-", "'"})) \in disallowed THEN ""
    ELSE StripChars(capture, {"-", "'"})

\* The loop of extract_child_name from pattern k on.
RECURSIVE NameFrom(_, _, _)

\* The candidate of pattern k is returned, capitalized, when there is one.
NameOr(candidate, cleaned, lowered, k) ==
    IF candidate # "" THEN Capitalize(candidate) ELSE NameFrom(cleaned, lowered, k + 1)

NameFrom(cleaned, lowered, k) ==
    IF k > 6 THEN NoName
    ELSE NameOr(Candidate(NameSearch(cleaned, lowered, k)), cleaned, lowered, k)

NameOfCleaned(cleaned) == IF cleaned = "" THEN NoName ELSE NameFrom(cleaned, Lower(cleaned), 1)

extract_child_name(text) == NameOfCleaned(clean_text_for_model(text))

(***************************************************************************)
(* Story handlers: POST /ai/sample (generation) and POST /story/rewrite    *)
(***************************************************************************)

\* The story the rewrite endpoint returns in place of an unsafe one.
RefusalMessage ==
    "I'm sorry, but the rewritten story contains inappropriate content for children. "
    \o "Please try a different instruction."

\* What the input checks of a handler found: the error, or the cleaned texts
\* with the age and the child name.
Rejected(detail) ==
    [ok |-> FALSE, error |-> Raise("BadRequest", 400, detail), age |-> NoAge,
     child_name |-> NoName, texts |-> <<>>]

Accepted(age, child_name, texts) ==
    [ok |-> TRUE, error |-> NoError, age |-> age, child_name |-> child_name, texts |-> texts]

\* sample_ai_endpoint, lines 97-105.
SampleNamed(cleaned_prompt, extracted_age, child_name) ==
    IF child_name = NoName
    THEN Rejected("Child name is required in the prompt. Please include at least one "
                  \o "child name, for example: 'for Emma, age 7'.")
    ELSE Accepted(extracted_age, child_name, <<cleaned_prompt>>)

\* sample_ai_endpoint, lines 87-105.
SampleAged(cleaned_prompt, extracted_age) ==
    IF extracted_age = NoAge
    THEN Rejected("Child age is required in the prompt. Please include an age between "
                  \o "1 and 10, for example: 'for a 7-year-old'.")
    ELSE SampleNamed(cleaned_prompt, extracted_age, extract_child_name(cleaned_prompt))

\* The checks without the safety filter.
SampleCheckedUnfiltered(cleaned_prompt) ==
    IF cleaned_prompt = "" THEN Rejected("Prompt cannot be empty.")
    ELSE SampleAged(cleaned_prompt, extract_age_from_prompt(cleaned_prompt))

\* sample_ai_endpoint, lines 78-105: the checks before the completion call.
SampleChecked(cleaned_prompt) ==
    IF cleaned_prompt = "" THEN Rejected("Prompt cannot be empty.")
    ELSE IF ~is_content_safe(cleaned_prompt)
    THEN Rejected("Prompt contains unsafe content and cannot be processed.")
    ELSE SampleAged(cleaned_prompt, extract_age_from_prompt(cleaned_prompt))

\* rewrite_story_endpoint, lines 88-95.
RewriteNamed(age, cleaned_original_story, cleaned_instruction, child_name) ==
    IF child_name = NoName
    THEN Rejected("Child name is required. Please include at least one child name "
                  \o "in the instruction or original story.")
    ELSE Accepted(age, child_name, <<cleaned_original_story, cleaned_instruction>>)

\* extract_child_name(cleaned_original_story) or extract_child_name(cleaned_instruction)
StoryNameOrName(instruction_name, cleaned_original_story) ==
    IF extract_child_name(cleaned_original_story) # NoName
    THEN extract_child_name(cleaned_original_story)
    ELSE instruction_name

\* extract_child_name(cleaned_instruction) or extract_child_name(cleaned_original_story)
NameOrStoryName(instruction_name, cleaned_original_story) ==
    IF instruction_name # NoName THEN instruction_name
    ELSE extract_child_name(cleaned_original_story)

\* rewrite_story_endpoint, lines 75-95.
RewriteInstruction(age, cleaned_original_story, cleaned_instruction) ==
    IF cleaned_instruction = "" THEN Rejected("Rewrite instruction cannot be empty")
    ELSE IF ~is_content_safe(cleaned_instruction)
    THEN Rejected("Rewrite instruction contains unsafe content and cannot be processed.")
    ELSE RewriteNamed(age, cleaned_original_story, cleaned_instruction,
                      NameOrStoryName(extract_child_name(cleaned_instruction),
                                      cleaned_original_story))

\* rewrite_story_endpoint, lines 56-95.
RewriteOriginal(age, cleaned_original_story, instruction) ==
    IF cleaned_original_story = "" THEN Rejected("Original story cannot be empty")
    ELSE IF ~is_content_safe(cleaned_original_story)
    THEN Rejected("Original story contains unsafe content and cannot be processed.")
    ELSE IF instruction = "" \/ Len(Strip(instruction)) = 0
    THEN Rejected("Rewrite instruction cannot be empty")
    ELSE RewriteInstruction(age, cleaned_original_story, clean_text_for_model(instruction))

\* rewrite_story_endpoint, lines 42-95: the checks before the completion call.
RewriteChecked(age, original_story, instruction) ==
    IF age < 1 \/ age > 10 THEN Rejected("Age must be between 1 and 10")
    ELSE IF original_story = "" \/ Len(Strip(original_story)) = 0
    THEN Rejected("Original story cannot be empty")
    ELSE RewriteOriginal(age, clean_text_for_model(original_story), instruction)

\* The n-th ObjectId of the story_history collection, as str() gives it: 24
\* hexadecimal digits.
StoryId(n) == Repeat("0", 23) \o NatToStr(n)

\* The document with a fixed user id in place of the caller's.
StoryDocAnonymous(user_id, child_name, prompt, story, age, mode, record_type, t) ==
    [id |-> "", user_id |-> "anonymous", child_name |-> Strip(child_name),
     prompt |-> Strip(prompt), story |-> Strip(story), age |-> age, is_favorite |-> FALSE,
     mode |-> mode, type |-> record_type, created_at |-> t, updated_at |-> t]

\* The document save_story_record inserts, before the collection gives it
\* its _id.
StoryDoc(user_id, child_name, prompt, story, age, mode, record_type, t) ==
    [id |-> "", user_id |-> Strip(user_id), child_name |-> Strip(child_name),
     prompt |-> Strip(prompt), story |-> Strip(story), age |-> age, is_favorite |-> FALSE,
     mode |-> mode, type |-> record_type, created_at |-> t, updated_at |-> t]

\* What a call of the story history service did to the collection.
Persisted(how, raised, saved, history, ids) ==
    [how |-> how, raised |-> raised, saved |-> saved, history |-> history, ids |-> ids]

\* collection.insert_one(document).
InsertStory(history, ids, doc) == Append(history, [doc EXCEPT !.id = StoryId(ids + 1)])

\* save_story_record, as the set of its outcomes: ValueError for a required
\* text that is empty or an unknown type; False without MONGODB_URI, when
\* the server does not answer, or after a PyMongoError of the insert; True
\* after the insert, with or without a failed create_index before it.
save_story_record(history, ids, configured, doc) ==
    IF doc.user_id = "" \/ doc.child_name = "" \/ doc.prompt = "" \/ doc.story = ""
       \/ doc.type \notin {"generate", "rewrite"}
    THEN {Persisted("validation_error", TRUE, FALSE, history, ids)}
    ELSE IF ~configured THEN {Persisted("not_configured", FALSE, FALSE, history, ids)}
    ELSE {Persisted("connection_failed", FALSE, FALSE, history, ids),
          Persisted("insert_failed", FALSE, FALSE, history, ids),
          Persisted("index_failed", FALSE, TRUE, InsertStory(history, ids, doc), ids + 1),
          Persisted("inserted", FALSE, TRUE, InsertStory(history, ids, doc), ids + 1)}

\* What the completion endpoint may do with a request: answer with a status
\* and a body (JSON or not, with the content of the first choice or the
\* error text), or not answer in time, or not be reachable.
Answer(name, status, json, content) ==
    [name |-> name, kind |-> "response", status |-> status, json |-> json,
     content |-> content]

ModelTexts == {"Emma met a kind dragon.", "The dragon took a gun."}

Upstreams ==
    {Answer("text", 200, TRUE, " " \o t \o "\n") : t \in ModelTexts}
    \cup {Answer("empty", 200, TRUE, " \n"), Answer("not_json", 200, FALSE, "<html>"),
          Answer("401", 401, TRUE, "Invalid credentials"),
          Answer("403", 403, TRUE, "Forbidden"),
          Answer("503", 503, TRUE, "Model is loading"),
          Answer("500", 500, TRUE, "Internal error"),
          [Answer("timeout", 0, FALSE, "") EXCEPT !.kind = "timeout"],
          [Answer("network", 0, FALSE, "") EXCEPT !.kind = "network"]}

\* HuggingFaceError and its subclasses, with their status_code.
HuggingFaceError(upstream, status_code, message) ==
    [ok |-> FALSE, text |-> "", status |-> status_code, message |-> message,
     upstream |-> upstream.name]

\* _call_huggingface_api, lines 132-161: the body of a 200 answer.
GeneratedText(upstream) ==
    IF ~upstream.json
    THEN HuggingFaceError(upstream, 502, "Hugging Face API returned a non-JSON response")
    ELSE IF upstream.content = "" \/ Strip(upstream.content) = ""
    THEN HuggingFaceError(upstream, 502, "Model returned empty response")
    ELSE [ok |-> TRUE, text |-> Strip(upstream.content), status |-> 200, message |-> "",
          upstream |-> upstream.name]

\* _call_huggingface_api: the stripped, non-empty text of the model, or a
\* HuggingFaceError.
call_huggingface_api(upstream) ==
    IF upstream.kind = "timeout"
    THEN HuggingFaceError(upstream, 504,
                          "Request to Hugging Face API timed out. Please try again.")
    ELSE IF upstream.kind = "network"
    THEN HuggingFaceError(upstream, 503,
                          "Network error while calling Hugging Face API. Please try again.")
    ELSE IF upstream.status \in {401, 403}
    THEN HuggingFaceError(upstream, 401, "Hugging Face token is invalid or expired.")
    ELSE IF upstream.status = 503
    THEN HuggingFaceError(upstream, 502,
             "The AI model is currently loading. Please try again in a few moments.")
    ELSE IF upstream.status # 200
    THEN HuggingFaceError(upstream, 502, "Hugging Face API error: " \o upstream.content)
    ELSE GeneratedText(upstream)

\* What sample_completion and rewrite_story may give for a call.
Completions == {call_huggingface_api(upstream) : upstream \in Upstreams}

(***************************************************************************)
(* The story handlers as a state machine: a client holding a token sends   *)
(* generation and rewrite requests, with and without the token.            *)
(***************************************************************************)

\* The most documents the story_history collection holds in the model.
MaxRecords == 2

\* The response to a request that came with the given credentials.
Presented(credentials, response) == [response EXCEPT !.bearer = credentials.credentials]

\* The response to a request that did not reach the completion client.
StoryError(call, authed, age, prompt, original, error) ==
    [NoStoryOutcome EXCEPT !.call = call, !.authed = authed, !.age = age,
                           !.prompt = prompt, !.original = original,
                           !.status = error.status, !.detail = error.detail]

\* The response to a request whose completion call failed.
StoryFailed(call, age, prompt, original, texts, prefix, completion) ==
    [NoStoryOutcome EXCEPT !.call = call, !.authed = TRUE, !.age = age,
                           !.prompt = prompt, !.original = original,
                           !.status = completion.status,
                           !.detail = prefix \o completion.message,
                           !.called = TRUE, !.sent = texts,
                           !.upstream = completion.upstream]

\* The response with the ValueError of save_story_record left uncaught.
StoryDoneUncaught(call, age, prompt, original, texts, completion, output, save) ==
    [NoStoryOutcome EXCEPT !.call = call, !.authed = TRUE, !.age = age,
                           !.prompt = prompt, !.original = original,
                           !.status = IF save.raised THEN 500 ELSE 200,
                           !.output = IF save.raised THEN "" ELSE output,
                           !.called = TRUE, !.sent = texts,
                           !.upstream = completion.upstream, !.completed = TRUE,
                           !.generated = completion.text, !.persistence = save.how,
                           !.saved = save.saved]

\* The 200 response to a request whose completion call returned text.
StoryDone(call, age, prompt, original, texts, completion, output, save) ==
    [NoStoryOutcome EXCEPT !.call = call, !.authed = TRUE, !.age = age,
                           !.prompt = prompt, !.original = original, !.status = 200,
                           !.output = output, !.called = TRUE, !.sent = texts,
                           !.upstream = completion.upstream, !.completed = TRUE,
                           !.generated = completion.text, !.persistence = save.how,
                           !.saved = save.saved]

\* The rewrite handler returning before save_story_record.
NotSaved == Persisted("none", FALSE, FALSE, <<>>, 0)

SamplePrompts ==
    {" \t ", "a story about a gun for Emma, age 7", "a story for Emma",
     "a story for a 7-year-old", "a  story for\tEmma, age 7",
     "Tell a story for a 7-year-old named Tom", "a skill story for Emma, age 12"}

Ages == {10, 11}
Originals == {"  ", "Emma had a knife.", "Emma met a dragon.", "A story for Mia."}
Instructions == {" \t", "add blood", "make it funnier", "make it funnier for Tom"}

\* POST /ai/sample: get_current_user, the checks, sample_completion, the
\* auto-save, the response.
SampleAi(credentials) ==
    /\ storyOutcome = NoStoryOutcome
    /\ Len(story_history) < MaxRecords
    /\ \E auth \in {get_current_user(credentials, now, secret)}, prompt \in SamplePrompts :
         IF ~auth.ok
         THEN /\ storyOutcome' = Presented(credentials, StoryError("sample", FALSE, NoAge, prompt, "", auth))
              /\ UNCHANGED <<story_history, story_ids>>
         ELSE \E checked \in {SampleChecked(clean_text_for_model(prompt))} :
                IF ~checked.ok
                THEN /\ storyOutcome' = Presented(credentials, [StoryError("sample", TRUE, NoAge, prompt, "",
                                                    checked.error)
                                         EXCEPT !.user = auth.user.user_id])
                     /\ UNCHANGED <<story_history, story_ids>>
                ELSE \E completion \in Completions :
                       IF ~completion.ok
                       THEN /\ storyOutcome' = Presented(credentials, [StoryFailed("sample", NoAge, prompt, "",
                                                            checked.texts,
                                                            "AI sample failed: ", completion)
                                                EXCEPT !.user = auth.user.user_id])
                            /\ UNCHANGED <<story_history, story_ids>>
                       ELSE \E save \in save_story_record(story_history, story_ids,
                                            mongo_configured,
                                            StoryDoc(auth.user.user_id, checked.child_name,
                                                     checked.texts[1], completion.text,
                                                     checked.age, auth.user.mode,
                                                     "generate", now)) :
                              /\ storyOutcome' = Presented(credentials, [StoryDone("sample", NoAge, prompt, "",
                                                            checked.texts, completion,
                                                            completion.text, save)
                                                  EXCEPT !.user = auth.user.user_id])
                              /\ story_history' = save.history
                              /\ story_ids' = save.ids
    /\ UNCHANGED <<tokenVars, authVars, textVars, stepVars>>

\* POST /story/rewrite: get_current_user, the checks, rewrite_story, the
\* check of the rewritten story, the save, the response.
RewriteStory(credentials) ==
    /\ storyOutcome = NoStoryOutcome
    /\ Len(story_history) < MaxRecords
    /\ \E auth \in {get_current_user(credentials, now, secret)}, age \in Ages,
          original_story \in Originals, instruction \in Instructions :
         IF ~auth.ok
         THEN /\ storyOutcome' = Presented(credentials, StoryError("rewrite", FALSE, age, instruction,
                                            original_story, auth))
              /\ UNCHANGED <<story_history, story_ids>>
         ELSE \E checked \in {RewriteChecked(age, original_story, instruction)} :
                IF ~checked.ok
                THEN /\ storyOutcome' = Presented(credentials, [StoryError("rewrite", TRUE, age, instruction,
                                                    original_story, checked.error)
                                         EXCEPT !.user = auth.user.user_id])
                     /\ UNCHANGED <<story_history, story_ids>>
                ELSE \E completion \in Completions :
                       IF ~completion.ok
                       THEN /\ storyOutcome' = Presented(credentials, [StoryFailed("rewrite", age, instruction,
                                                            original_story, checked.texts,
                                                            "Story rewriting failed: ",
                                                            completion)
                                                EXCEPT !.user = auth.user.user_id])
                            /\ UNCHANGED <<story_history, story_ids>>
                       ELSE IF ~is_content_safe(completion.text)
                       THEN /\ storyOutcome' = Presented(credentials, [StoryDone("rewrite", age, instruction,
                                                          original_story, checked.texts,
                                                          completion, RefusalMessage,
                                                          NotSaved)
                                                EXCEPT !.user = auth.user.user_id])
                            /\ UNCHANGED <<story_history, story_ids>>
                       ELSE \E save \in save_story_record(story_history, story_ids,
                                            mongo_configured,
                                            StoryDoc(auth.user.user_id, checked.child_name,
                                                     instruction, completion.text, age,
                                                     auth.user.mode, "rewrite", now)) :
                              /\ storyOutcome' = Presented(credentials, [StoryDone("rewrite", age, instruction,
                                                            original_story, checked.texts,
                                                            completion, completion.text,
                                                            save)
                                                  EXCEPT !.user = auth.user.user_id])
                              /\ story_history' = save.history
                              /\ story_ids' = save.ids
    /\ UNCHANGED <<tokenVars, authVars, textVars, stepVars>>

\* The response of the last request reaches the client; the next request is
\* looked at from here.
StoryRespond ==
    /\ storyOutcome # NoStoryOutcome
    /\ storyOutcome' = NoStoryOutcome
    /\ UNCHANGED <<story_history, story_ids, tokenVars, authVars, textVars, stepVars>>

\* The token of a login of user u1 as Parent in mode home at second 0.
StoryToken ==
    create_access_token([id |-> JStr("u1"), role |-> JStr("Parent")], "home", 0,
                        AuthSecret).token

StoryInit ==
    /\ now = 0
    /\ secret = AuthSecret
    /\ token = StoryToken
    /\ origin = [NoOrigin EXCEPT !.kind = "issued", !.sub = "u1", !.role = "Parent",
                                 !.mode = "home", !.base = StoryToken]
    /\ outcome = NoOutcome
    /\ mongo_configured \in BOOLEAN
    /\ users_collection = {}
    /\ auth_users_env = NoEnvUsers
    /\ user_cache = NoCache
    /\ pending = [r \in Requests |-> NoPending]
    /\ authOutcome = NoAuthOutcome
    /\ StoryIdle
    /\ TextIdle
    /\ StepIdle

StoryNext ==
    \/ \E credentials \in {Bearer(token), NoCredentials} : SampleAi(credentials)
    \/ \E credentials \in {Bearer(token), NoCredentials} : RewriteStory(credentials)
    \/ StoryRespond

SpecStory == StoryInit /\ [][StoryNext]_vars

(***************************************************************************)
(* The story history service behind the favourite, history and delete      *)
(* operations                                                              *)
(***************************************************************************)

HexChars == DigitChars \cup {"a", "b", "c", "d", "e", "f", "A", "B", "C", "D", "E", "F"}

\* bson.ObjectId(story_id) accepts 24 hexadecimal digits, else InvalidId.
IsObjectId(s) == Len(s) = 24 /\ \A i \in 1..24 : CharAt(s, i) \in HexChars

\* The documents of a user, as positions of the collection.
OwnedBy(history, user_id) == {i \in DOMAIN history : history[i].user_id = user_id}

\* find(...).sort("created_at", -1).limit(limit) over the documents the
\* filter found: the newest first.
FindNewestFirst(found, limit) ==
    LET n == Len(found)
        newest == [i \in 1..n |-> found[n + 1 - i]]
    IN SubSeq(newest, 1, IF n < limit THEN n ELSE limit)

\* What a list call gave: the items, or the ValueError for a blank user id.
Listed(how, raised, items) == [how |-> how, raised |-> raised, items |-> items]

\* list_story_records: [] without a collection or after a PyMongoError.
list_story_records(history, configured, user_id, limit) ==
    IF Strip(user_id) = "" THEN {Listed("validation_error", TRUE, <<>>)}
    ELSE IF ~configured THEN {Listed("not_configured", FALSE, <<>>)}
    ELSE {Listed("connection_failed", FALSE, <<>>), Listed("find_failed", FALSE, <<>>),
          Listed("listed", FALSE,
                 FindNewestFirst(SelectSeq(history, LAMBDA d : d.user_id = Strip(user_id)),
                                 IF limit < 1 THEN 1 ELSE IF limit > 200 THEN 200 ELSE limit))}

\* list_favorite_records: the same over the documents flagged favorite.
list_favorite_records(history, configured, user_id, limit) ==
    IF Strip(user_id) = "" THEN {Listed("validation_error", TRUE, <<>>)}
    ELSE IF ~configured THEN {Listed("not_configured", FALSE, <<>>)}
    ELSE {Listed("connection_failed", FALSE, <<>>), Listed("find_failed", FALSE, <<>>),
          Listed("listed", FALSE,
                 FindNewestFirst(SelectSeq(history, LAMBDA d : d.user_id = Strip(user_id)
                                                                      /\ d.is_favorite),
                                 IF limit < 1 THEN 1 ELSE IF limit > 200 THEN 200 ELSE limit))}

\* update_one(..., {"$set": {"is_favorite": flag, "updated_at": now}}).
SetFavorite(history, i, flag, t) ==
    [history EXCEPT ![i].is_favorite = flag, ![i].updated_at = t]

\* The document the upsert of mark_story_favorite inserts ($set and
\* $setOnInsert together).
FavoriteDoc(user_id, prompt, story, age, mode, record_type, is_favorite, t) ==
    [id |-> "", user_id |-> Strip(user_id), child_name |-> "", prompt |-> Strip(prompt),
     story |-> Strip(story), age |-> age, is_favorite |-> is_favorite, mode |-> mode,
     type |-> record_type, created_at |-> t, updated_at |-> t]

\* The upsert of mark_story_favorite with the insert left out.
MarkFoundOnly(history, ids, found, doc, t) ==
    {Persisted("connection_failed", FALSE, FALSE, history, ids),
     Persisted("update_failed", FALSE, FALSE, history, ids),
     IF found # {}
     THEN Persisted("updated", FALSE, TRUE,
                    SetFavorite(history, SetMin(found), doc.is_favorite, t), ids)
     ELSE Persisted("updated", FALSE, TRUE, history, ids)}

\* mark_story_favorite, lines 203-238: the first document of the user with
\* the story has its flag set; without one the upsert inserts a document.
MarkFound(history, ids, found, doc, t) ==
    {Persisted("connection_failed", FALSE, FALSE, history, ids),
     Persisted("update_failed", FALSE, FALSE, history, ids),
     IF found # {}
     THEN Persisted("updated", FALSE, TRUE,
                    SetFavorite(history, SetMin(found), doc.is_favorite, t), ids)
     ELSE Persisted("upserted", FALSE, TRUE, InsertStory(history, ids, doc), ids + 1)}

\* mark_story_favorite without the check for a missing collection.
mark_story_favorite_unguarded(history, ids, configured, doc, t) ==
    IF doc.user_id = "" \/ doc.prompt = "" \/ doc.story = ""
       \/ doc.type \notin {"generate", "rewrite"}
    THEN {Persisted("validation_error", TRUE, FALSE, history, ids)}
    ELSE MarkFound(history, ids,
                   {i \in OwnedBy(history, doc.user_id) : history[i].story = doc.story},
                   doc, t)

\* mark_story_favorite, as the set of its outcomes.
mark_story_favorite(history, ids, configured, doc, t) ==
    IF doc.user_id = "" \/ doc.prompt = "" \/ doc.story = ""
       \/ doc.type \notin {"generate", "rewrite"}
    THEN {Persisted("validation_error", TRUE, FALSE, history, ids)}
    ELSE IF ~configured THEN {Persisted("not_configured", FALSE, FALSE, history, ids)}
    ELSE MarkFound(history, ids,
                   {i \in OwnedBy(history, doc.user_id) : history[i].story = doc.story},
                   doc, t)

\* The text of the ValueError of _validate_required_text for the first
\* required field that is blank.
RequiredError(doc) ==
    IF doc.user_id = "" THEN "user_id is required"
    ELSE IF doc.prompt = "" THEN "prompt is required"
    ELSE "story is required"

\* The documents with the given _id and user_id.
OwnedWithId(history, user_id, story_id) ==
    {i \in OwnedBy(history, user_id) : history[i].id = story_id}

\* The collection without its i-th document.
Without(history, i) == SubSeq(history, 1, i - 1) \o SubSeq(history, i + 1, Len(history))

\* delete_one with the filter on _id alone.
DeleteFoundAnyOwner(history, ids, user_id, story_id) ==
    {Persisted("connection_failed", FALSE, FALSE, history, ids),
     Persisted("delete_failed", FALSE, FALSE, history, ids),
     IF {i \in DOMAIN history : history[i].id = story_id} # {}
     THEN Persisted("deleted", FALSE, TRUE,
                    Without(history, SetMin({i \in DOMAIN history :
                                                 history[i].id = story_id})), ids)
     ELSE Persisted("not_found", FALSE, FALSE, history, ids)}

\* delete_story_record, lines 265-273: delete_one({"_id", "user_id"}).
DeleteFound(history, ids, user_id, story_id) ==
    {Persisted("connection_failed", FALSE, FALSE, history, ids),
     Persisted("delete_failed", FALSE, FALSE, history, ids),
     IF OwnedWithId(history, user_id, story_id) # {}
     THEN Persisted("deleted", FALSE, TRUE,
                    Without(history, SetMin(OwnedWithId(history, user_id, story_id))), ids)
     ELSE Persisted("not_found", FALSE, FALSE, history, ids)}

\* delete_story_record, as the set of its outcomes.
delete_story_record(history, ids, configured, user_id, story_id) ==
    IF Strip(user_id) = "" \/ Strip(story_id) = "" \/ ~IsObjectId(Strip(story_id))
    THEN {Persisted("validation_error", TRUE, FALSE, history, ids)}
    ELSE IF ~configured THEN {Persisted("not_configured", FALSE, FALSE, history, ids)}
    ELSE DeleteFound(history, ids, Strip(user_id), Strip(story_id))

\* What toggle_story_favorite returned ("True", "False" or "None") and did.
Toggled(how, raised, result, history) ==
    [how |-> how, raised |-> raised, result |-> result, history |-> history]

\* toggle_story_favorite, lines 302-328: find_one and update_one, both with
\* the filter {"_id", "user_id"}.
ToggleFound(history, found, t) ==
    {Toggled("connection_failed", FALSE, "None", history),
     Toggled("update_failed", FALSE, "None", history),
     IF found # {}
     THEN Toggled("toggled", FALSE,
                  IF history[SetMin(found)].is_favorite THEN "False" ELSE "True",
                  SetFavorite(history, SetMin(found),
                              ~history[SetMin(found)].is_favorite, t))
     ELSE Toggled("not_found", FALSE, "None", history)}

\* toggle_story_favorite, as the set of its outcomes.
toggle_story_favorite(history, configured, user_id, story_id, t) ==
    IF Strip(user_id) = "" \/ Strip(story_id) = "" \/ ~IsObjectId(Strip(story_id))
    THEN {Toggled("validation_error", TRUE, "None", history)}
    ELSE IF ~configured THEN {Toggled("not_configured", FALSE, "None", history)}
    ELSE ToggleFound(history, OwnedWithId(history, Strip(user_id), Strip(story_id)), t)

(***************************************************************************)
(* The story history operations as a state machine: two users, a user     *)
(* whose configured id is blank, and callers without a valid token send    *)
(* generation, rewrite, save-favorite, history and favorites requests;     *)
(* delete_story_record and toggle_story_favorite are called with a user id *)
(* and a story id.                                                         *)
(***************************************************************************)

\* The most ObjectIds the story_history collection gives out in the model.
MaxStories == 1

FavoritePrompts == {"a story for Emma, age 7", " "}
FavoriteStories == {"Emma met a kind dragon.", "The dragon took a gun."}
FavoriteTypes == {"generate", "rewrite"}

\* The response of POST /ai/save-favorite to a verified caller.
FavoriteResponse(user_id, age, prompt, story, doc, mark) ==
    [NoStoryOutcome EXCEPT !.call = "save-favorite", !.authed = TRUE, !.user = user_id,
                           !.age = age, !.prompt = prompt, !.story = story,
                           !.status = IF mark.raised THEN 400 ELSE 200,
                           !.detail = IF mark.raised THEN RequiredError(doc) ELSE "",
                           !.output = IF mark.raised THEN ""
                                      ELSE IF mark.saved THEN "Story saved to favorites."
                                      ELSE "Favorite save is currently unavailable.",
                           !.persistence = mark.how, !.saved = mark.saved]

\* POST /ai/save-favorite: get_current_user, mark_story_favorite, the
\* response.
SaveFavorite(credentials) ==
    /\ storyOutcome = NoStoryOutcome
    /\ \E auth \in {get_current_user(credentials, now, secret)}, prompt \in FavoritePrompts,
          story \in FavoriteStories, record_type \in FavoriteTypes :
         IF ~auth.ok
         THEN /\ storyOutcome' = Presented(credentials, [StoryError("save-favorite", FALSE, 7, prompt, "", auth)
                                  EXCEPT !.story = story])
              /\ UNCHANGED <<story_history, story_ids>>
         ELSE \E doc \in {FavoriteDoc(auth.user.user_id, prompt, story, 7, auth.user.mode,
                                      record_type, TRUE, now)} :
                \E mark \in mark_story_favorite(story_history, story_ids, mongo_configured,
                                                doc, now) :
                  /\ storyOutcome' = Presented(credentials, FavoriteResponse(auth.user.user_id, 7, prompt, story,
                                                      doc, mark))
                  /\ story_history' = mark.history
                  /\ story_ids' = mark.ids
    /\ story_ids' <= MaxStories
    /\ UNCHANGED <<tokenVars, authVars, textVars, stepVars>>

\* The response of a list endpoint to a verified caller; the ValueError of a
\* blank user id is not caught by the endpoint.
ListResponse(call, user_id, listed) ==
    [NoStoryOutcome EXCEPT !.call = call, !.authed = TRUE, !.user = user_id,
                           !.status = IF listed.raised THEN Unhandled("ValueError").status
                                      ELSE 200,
                           !.detail = IF listed.raised THEN Unhandled("ValueError").detail
                                      ELSE "",
                           !.persistence = listed.how, !.items = listed.items]

\* GET /ai/history without the get_current_user dependency: the records of
\* user u1 for every caller.
GetHistoryUnverified(credentials) ==
    /\ storyOutcome = NoStoryOutcome
    /\ \E listed \in list_story_records(story_history, mongo_configured, "u1", 100) :
         storyOutcome' = Presented(credentials, ListResponse("history", "u1", listed))
    /\ UNCHANGED <<story_history, story_ids, tokenVars, authVars, textVars, stepVars>>

\* GET /ai/history: get_current_user, list_story_records(limit=100).
GetHistory(credentials) ==
    /\ storyOutcome = NoStoryOutcome
    /\ \E auth \in {get_current_user(credentials, now, secret)} :
         IF ~auth.ok
         THEN storyOutcome' = Presented(credentials, StoryError("history", FALSE, NoAge, "", "", auth))
         ELSE \E listed \in list_story_records(story_history, mongo_configured,
                                               auth.user.user_id, 100) :
                storyOutcome' = Presented(credentials, ListResponse("history", auth.user.user_id, listed))
    /\ UNCHANGED <<story_history, story_ids, tokenVars, authVars, textVars, stepVars>>

\* GET /ai/favorites: get_current_user, list_favorite_records(limit=200).
GetFavorites(credentials) ==
    /\ storyOutcome = NoStoryOutcome
    /\ \E auth \in {get_current_user(credentials, now, secret)} :
         IF ~auth.ok
         THEN storyOutcome' = Presented(credentials, StoryError("favorites", FALSE, NoAge, "", "", auth))
         ELSE \E listed \in list_favorite_records(story_history, mongo_configured,
                                                  auth.user.user_id, 200) :
                storyOutcome' = Presented(credentials, ListResponse("favorites", auth.user.user_id, listed))
    /\ UNCHANGED <<story_history, story_ids, tokenVars, authVars, textVars, stepVars>>

\* What a call of delete_story_record or toggle_story_favorite gave.
ServiceResult(call, user_id, story_id, how, raised, result) ==
    [NoStoryOutcome EXCEPT !.call = call, !.user = user_id, !.story_id = story_id,
                           !.persistence = how, !.result = result,
                           !.detail = IF raised THEN "ValueError" ELSE ""]

\* delete_story_record(user_id=..., story_id=...).
DeleteStory(user_id, story_id) ==
    /\ storyOutcome = NoStoryOutcome
    /\ \E deleted \in delete_story_record(story_history, story_ids, mongo_configured,
                                          user_id, story_id) :
         /\ storyOutcome' = ServiceResult("delete", user_id, story_id, deleted.how,
                                          deleted.raised,
                                          IF deleted.saved THEN "True" ELSE "False")
         /\ story_history' = deleted.history
    /\ UNCHANGED <<story_ids, tokenVars, authVars, textVars, stepVars>>

\* toggle_story_favorite(user_id=..., story_id=...).
ToggleFavorite(user_id, story_id) ==
    /\ storyOutcome = NoStoryOutcome
    /\ \E toggled \in toggle_story_favorite(story_history, mongo_configured, user_id,
                                            story_id, now) :
         /\ storyOutcome' = ServiceResult("toggle", user_id, story_id, toggled.how,
                                          toggled.raised, toggled.result)
         /\ story_history' = toggled.history
    /\ UNCHANGED <<story_ids, tokenVars, authVars, textVars, stepVars>>

\* The tokens of the callers: user u2, a user whose configured id is blank,
\* and a token for u1 signed with another key.
OtherToken ==
    create_access_token([id |-> JStr("u2"), role |-> JStr("Teacher")], "institution", 0,
                        AuthSecret).token

BlankToken ==
    create_access_token([id |-> JStr(" "), role |-> JStr("Parent")], "home", 0,
                        AuthSecret).token

ForgedToken ==
    create_access_token([id |-> JStr("u1"), role |-> JStr("Parent")], "home", 0,
                        OtherKey).token

HistoryCredentials ==
    {Bearer(StoryToken), Bearer(OtherToken), Bearer(BlankToken), Bearer(ForgedToken),
     NoCredentials}

ServiceUsers == {"u1", " u2 ", " "}
StoryIdArgs == {StoryId(1), StoryId(2), "story-1"}

HistoryInit == StoryInit

HistoryNext ==
    \/ \E credentials \in HistoryCredentials :
         story_ids < MaxStories /\ SampleAi(credentials)
    \/ \E credentials \in HistoryCredentials :
         story_ids < MaxStories /\ RewriteStory(credentials)
    \/ \E credentials \in HistoryCredentials : SaveFavorite(credentials)
    \/ \E credentials \in HistoryCredentials : GetHistory(credentials)
    \/ \E credentials \in HistoryCredentials : GetFavorites(credentials)
    \/ \E user_id \in ServiceUsers, story_id \in StoryIdArgs : DeleteStory(user_id, story_id)
    \/ \E user_id \in ServiceUsers, story_id \in StoryIdArgs :
         ToggleFavorite(user_id, story_id)
    \/ StoryRespond

SpecHistory == HistoryInit /\ [][HistoryNext]_vars

(***************************************************************************)
(* The functions of the safety module, and _extract_age_from_prompt,       *)
(* called on their own: a caller holds one value and applies them to it    *)
(***************************************************************************)

\* The longest text of TextAlphabet a caller passes.
MaxTextLen == 3

TextAlphabet == {"a", " ", "\t", Del, Nbsp}

\* The texts of at most n characters of chars.
RECURSIVE TextsOver(_, _)
TextsOver(chars, n) ==
    IF n = 0 THEN {""}
    ELSE {s \o c : s \in TextsOver(chars, n - 1), c \in chars \cup {""}}

\* Texts around a word: a keyword of the denylist in several letter cases,
\* alone, inside a longer word, and next to punctuation.
WordsBefore == {"", "s", "a ", "_", "(", NonAscii}
WordsTried == {"kill", "Kill", "KILL", "gun", "aSs", "Hell", "sexual", "drug", "whale"}
WordsAfter == {"", "s", " whale", "er whale", ".", "_", NonAscii}
WordTexts == {b \o w \o a : b \in WordsBefore, w \in WordsTried, a \in WordsAfter}

\* Texts around a number: the wordings the age patterns look for, one or
\* two of them in a text.
AgesBefore == {"", "for a ", "for ", "For\t", "age ", "age 3 for ", "age 12 and ", "page "}
AgesTried == {"7", "15", "0", "10", "11", "07", ""}
AgesAfter ==
    {"", "-year-old", " years old", " Year  Old", "yo", " y/o", "-year-olds",
     "yr old and age 4", "-year-old, or 4 years old"}
AgeTexts == {b \o n \o a : b \in AgesBefore, n \in AgesTried, a \in AgesAfter}

\* Texts around a name: the wordings the name patterns look for, one or two
\* of them in a text, with names in several letter cases, stopwords, and
\* names with hyphens and apostrophes.
NamesBefore ==
    {"a story for ", "named ", "a girl called ", "her name is ", "my son ",
     "for my daughter named ", "for the kid ", "unnamed "}
NamesTried ==
    {"Emma", "EMMA", "emma", "McDonald", "O'Neil", "the", "The", "child", "A", "x-", "Al-", "-"}
NamesAfter == {"", ", age 7", " for TOM", " named zoe", "5", "'s story"}
NameTexts == {b \o n \o a : b \in NamesBefore, n \in NamesTried, a \in NamesAfter}

\* Texts with keywords of several patterns, and several of one pattern.
ReasonTexts ==
    {"a Gun and a knife, then a gun", "Damn drug", "hell: a nude gun on drugs, alcohol!",
     "a skill for shellfish", "kill sex ass drug"}

TextArguments ==
    {PyNone, PyInt}
    \cup {PyStr(s) : s \in TextsOver(TextAlphabet, MaxTextLen) \cup WordTexts \cup AgeTexts
                              \cup NameTexts}
    \cup {PyStr("a story for the child")}
    \cup {PyStr("no age here"), PyStr(" a\t\tstory " \o Del \o " for  Emma \n")}
    \cup {PyStr(s) : s \in ReasonTexts}

\* str.upper() and str.swapcase()
Upper(s) == StrMap(s, UpperChar)
SwapChar(c) == IF LowerChar(c) # c THEN LowerChar(c) ELSE UpperChar(c)
SwapCase(s) == StrMap(s, SwapChar)

\* The same text in other letter cases.
Recased(s) == {Lower(s), Upper(s), SwapCase(s), Capitalize(s)}

\* A text is held in a variable as its Python literal is written, with the
\* characters outside ASCII as escapes: TLC keeps only the low byte of each
\* character of a state it writes to its queue on disk.
EscapeOf(c) ==
    IF c = NonAscii THEN "\\xe9"
    ELSE IF c = NonAsciiUpper THEN "\\xc9"
    ELSE IF c = Nbsp THEN "\\xa0"
    ELSE IF c = "\\" THEN "\\\\"
    ELSE c

Escaped(s) == StrMap(s, EscapeOf)

\* The text an escaped text stands for.
RECURSIVE Unescaped(_)
Unescaped(e) ==
    IF e = "" THEN ""
    ELSE IF CharAt(e, 1) # "\\" THEN CharAt(e, 1) \o Unescaped(SubSeq(e, 2, Len(e)))
    ELSE IF SubSeq(e, 1, 2) = "\\\\" THEN "\\" \o Unescaped(SubSeq(e, 3, Len(e)))
    ELSE (CHOOSE c \in {NonAscii, NonAsciiUpper, Nbsp} : EscapeOf(c) = SubSeq(e, 1, 4))
         \o Unescaped(SubSeq(e, 5, Len(e)))

\* A Python value as a variable holds it, and the value a variable holds.
Held(value) == IF value.type = "str" THEN PyStr(Escaped(value.value)) ELSE value
Passed(held) == IF held.type = "str" THEN PyStr(Unescaped(held.value)) ELSE held

\* clean_text_for_model of any value: "" for what is not a str.
CleanValue(value) == IF value.type # "str" THEN "" ELSE clean_text_for_model(value.value)

\* cleaned = clean_text_for_model(argument)
CleanText ==
    /\ textOutcome = NoTextOutcome
    /\ textOutcome' =
          [NoTextOutcome EXCEPT !.call = "clean", !.input = argument,
                                !.text = Escaped(CleanValue(Passed(argument)))]
    /\ UNCHANGED <<argument, tokenVars, authVars, storyVars, stepVars>>

\* clean_text_for_model(cleaned)
CleanAgain ==
    /\ textOutcome.call = "clean"
    /\ textOutcome' =
          [NoTextOutcome EXCEPT !.call = "clean_again", !.input = PyStr(textOutcome.text),
                                !.text = Escaped(CleanValue(Passed(PyStr(textOutcome.text))))]
    /\ UNCHANGED <<argument, tokenVars, authVars, storyVars, stepVars>>

\* is_content_safe(argument)
CheckSafe ==
    /\ textOutcome = NoTextOutcome
    /\ argument.type = "str"
    /\ textOutcome' =
          [NoTextOutcome EXCEPT !.call = "safe", !.input = argument,
                                !.safe = is_content_safe(Passed(argument).value)]
    /\ UNCHANGED <<argument, tokenVars, authVars, storyVars, stepVars>>

\* is_content_safe of the text just checked, in another letter case.
CheckRecased ==
    /\ textOutcome.call = "safe"
    /\ \E recased \in Recased(Passed(textOutcome.input).value) :
          textOutcome' =
             [NoTextOutcome EXCEPT !.call = "safe_recased", !.input = Held(PyStr(recased)),
                                   !.safe = is_content_safe(recased),
                                   !.was = textOutcome.safe]
    /\ UNCHANGED <<argument, tokenVars, authVars, storyVars, stepVars>>

\* _extract_age_from_prompt(argument)
ExtractAge ==
    /\ textOutcome = NoTextOutcome
    /\ argument.type = "str"
    /\ textOutcome' =
          [NoTextOutcome EXCEPT !.call = "age", !.input = argument,
                                !.age = extract_age_from_prompt(Passed(argument).value)]
    /\ UNCHANGED <<argument, tokenVars, authVars, storyVars, stepVars>>

\* extract_child_name(argument)
ExtractName ==
    /\ textOutcome = NoTextOutcome
    /\ argument.type = "str"
    /\ textOutcome' =
          [NoTextOutcome EXCEPT !.call = "name", !.input = argument,
                                !.name = Escaped(extract_child_name(Passed(argument).value))]
    /\ UNCHANGED <<argument, tokenVars, authVars, storyVars, stepVars>>

\* get_unsafe_content_reasons(argument)
ListReasons ==
    /\ textOutcome = NoTextOutcome
    /\ argument.type = "str"
    /\ \E reasons \in get_unsafe_content_reasons(Passed(argument).value) :
          textOutcome' =
             [NoTextOutcome EXCEPT !.call = "reasons", !.input = argument,
                                   !.reasons = [i \in DOMAIN reasons |-> Escaped(reasons[i])]]
    /\ UNCHANGED <<argument, tokenVars, authVars, storyVars, stepVars>>

\* The caller takes the result and may call again.
TextReturn ==
    /\ textOutcome # NoTextOutcome
    /\ textOutcome' = NoTextOutcome
    /\ UNCHANGED <<argument, tokenVars, authVars, storyVars, stepVars>>

TextInit ==
    /\ TokenIdle
    /\ AuthIdle
    /\ StoryIdle
    /\ argument \in {Held(value) : value \in TextArguments}
    /\ textOutcome = NoTextOutcome
    /\ StepIdle

TextNext ==
    \/ CleanText
    \/ CleanAgain
    \/ CheckSafe
    \/ CheckRecased
    \/ ExtractAge
    \/ ExtractName
    \/ ListReasons
    \/ TextReturn

SpecText == TextInit /\ [][TextNext]_vars

(***************************************************************************)
(* utils/config.py: the configuration cache, which main.py fills while it  *)
(* is imported and the handlers' threads read afterwards                   *)
(***************************************************************************)

\* The calls of get_huggingface_config one thread makes at most.
MaxConfigCalls == 5

HfNames == <<"HUGGINGFACE_API_TOKEN", "HUGGINGFACE_API_URL", "HUGGINGFACE_MODEL">>

\* _read_env(name)
read_env(env, name) == Strip(env[name])

\* The list missing of _load_huggingface_config, joined with ", ".
MissingList(env) ==
    LET missing == SelectSeq(HfNames, LAMBDA name : read_env(env, name) = "")
        f == [i \in 1..Len(missing) |-> IF i = 1 THEN missing[i] ELSE ", " \o missing[i]]
    IN Concat(f, 1, Len(missing))

\* _load_huggingface_config: a new HuggingFaceConfig object, or RuntimeError.
load_huggingface_config(env, object) ==
    IF MissingList(env) # ""
    THEN [ok |-> FALSE, config |-> NoConfig,
          message |-> "Missing required Hugging Face configuration: " \o MissingList(env)
                      \o ". Set these as environment variables before starting the API."]
    ELSE [ok |-> TRUE,
          config |-> HuggingFaceConfig(object, read_env(env, "HUGGINGFACE_API_TOKEN"),
                                       read_env(env, "HUGGINGFACE_API_URL"),
                                       read_env(env, "HUGGINGFACE_MODEL")),
          message |-> ""]

\* The handlers run from the first moment of the process on.
ServingFromStart == process \in {"starting", "serving"}

\* main.py creates the app, and the server takes requests, after
\* validate_huggingface_config() has returned.
Serving == process = "serving"

\* Thread t may be running code: the main thread while main.py is imported,
\* a worker thread while the app serves.
Runs(t) == IF t = MainThread THEN process = "starting" ELSE Serving

\* get_huggingface_config, line 68: if _HF_CONFIG is None
ConfigCheck(t) ==
    /\ Runs(t)
    /\ hf_calls[t].pc = "idle"
    /\ hf_calls[t].calls < MaxConfigCalls
    /\ hf_calls' = [hf_calls EXCEPT ![t].pc = IF hf_config.set THEN "return" ELSE "load",
                                    ![t].got = NoConfig, ![t].raised = FALSE]
    /\ UNCHANGED <<process, hf_env, hf_config, hf_loads>>
    /\ UNCHANGED <<tokenVars, authVars, storyVars, textVars, loginVars, toggleVars>>

\* line 69, right-hand side: _load_huggingface_config(); its RuntimeError
\* ends the call, and ends the process when main.py is being imported.
ConfigLoad(t) ==
    /\ hf_calls[t].pc = "load"
    /\ \E r \in {load_huggingface_config(hf_env, hf_loads + 1)} :
         /\ hf_calls' = [hf_calls EXCEPT ![t].pc = IF r.ok THEN "store" ELSE "idle",
                                         ![t].loaded = r.config,
                                         ![t].raised = ~r.ok,
                                         ![t].calls = IF r.ok THEN @ ELSE @ + 1]
         /\ process' = IF ~r.ok /\ t = MainThread THEN "failed" ELSE process
    /\ hf_loads' = hf_loads + 1
    /\ UNCHANGED <<hf_env, hf_config>>
    /\ UNCHANGED <<tokenVars, authVars, storyVars, textVars, loginVars, toggleVars>>

\* line 69, the assignment to _HF_CONFIG.
ConfigStore(t) ==
    /\ hf_calls[t].pc = "store"
    /\ hf_config' = hf_calls[t].loaded
    /\ hf_calls' = [hf_calls EXCEPT ![t].pc = "return"]
    /\ UNCHANGED <<process, hf_env, hf_loads>>
    /\ UNCHANGED <<tokenVars, authVars, storyVars, textVars, loginVars, toggleVars>>

\* line 70: return _HF_CONFIG; main.py goes on to create the app.
ConfigReturn(t) ==
    /\ hf_calls[t].pc = "return"
    /\ hf_calls' = [hf_calls EXCEPT ![t].pc = "idle", ![t].got = hf_config,
                                    ![t].calls = @ + 1]
    /\ process' = IF t = MainThread THEN "serving" ELSE process
    /\ UNCHANGED <<hf_env, hf_config, hf_loads>>
    /\ UNCHANGED <<tokenVars, authVars, storyVars, textVars, loginVars, toggleVars>>

\* An environment without HUGGINGFACE_MODEL.
HfEnvNoModel == [HfEnv EXCEPT !["HUGGINGFACE_MODEL"] = " "]

ConfigInit ==
    /\ TokenIdle
    /\ AuthIdle
    /\ StoryIdle
    /\ TextIdle
    /\ LoginIdle
    /\ ToggleIdle
    /\ process = "starting"
    /\ hf_env \in {HfEnv, HfEnvNoModel}
    /\ hf_config = NoConfig
    /\ hf_loads = 0
    /\ hf_calls = [t \in Threads \cup {MainThread} |-> NoHfCall]

ConfigNext ==
    \/ \E t \in Threads \cup {MainThread} : ConfigCheck(t)
    \/ \E t \in Threads \cup {MainThread} : ConfigLoad(t)
    \/ \E t \in Threads \cup {MainThread} : ConfigStore(t)
    \/ \E t \in Threads \cup {MainThread} : ConfigReturn(t)

SpecConfig == ConfigInit /\ [][ConfigNext]_vars

(***************************************************************************)
(* authenticate_user in its steps, for the threads of concurrent logins    *)
(* against the fallback credential list                                     *)
(***************************************************************************)

\* The logins one thread makes at most.
MaxLogins == 2

\* str(uuid.uuid4()) for the entries of the n-th list built in this process.
BuildIds(n) == [i \in 1..Len(DemoSpecs) |-> "uuid-" \o NatToStr(Len(DemoSpecs) * (n - 1) + i)]

\* secrets.token_bytes(16) for the entries of a list.
BuildSalts == {[i \in 1..Len(DemoSpecs) |-> salt] : salt \in Salts}

\* authenticate_user, lines 209-213, and _get_user_store, line 200: nothing
\* in the database, so the fallback list is asked for; is _user_cache there?
LoginStart(t, email, password, mode) ==
    /\ logins[t].pc = "idle"
    /\ logins[t].count < MaxLogins
    /\ ~load_user_from_db(Lower(Strip(email)), mongo_configured, users_collection).found
    /\ logins' = [logins EXCEPT ![t] =
                     [NoLogin EXCEPT !.pc = IF user_cache.loaded THEN "fetch" ELSE "build",
                                     !.email = Lower(Strip(email)), !.password = password,
                                     !.mode = mode, !.count = logins[t].count]]
    /\ UNCHANGED <<store_builds, user_cache>>
    /\ UNCHANGED <<mongo_configured, users_collection, auth_users_env, pending, authOutcome>>
    /\ UNCHANGED <<tokenVars, storyVars, textVars, configVars, toggleVars>>

\* _get_user_store, lines 203-204, right-hand side: the list is built.
LoginBuild(t) ==
    /\ logins[t].pc = "build"
    /\ \E salts \in BuildSalts :
         \E store \in {get_user_store(NoCache, auth_users_env, salts,
                                      BuildIds(store_builds + 1))} :
            logins' = [logins EXCEPT ![t].pc = "cache", ![t].built = store.users]
    /\ store_builds' = store_builds + 1
    /\ UNCHANGED user_cache
    /\ UNCHANGED <<mongo_configured, users_collection, auth_users_env, pending, authOutcome>>
    /\ UNCHANGED <<tokenVars, storyVars, textVars, configVars, toggleVars>>

\* line 204, the assignment to _user_cache.
LoginCache(t) ==
    /\ logins[t].pc = "cache"
    /\ user_cache' = [loaded |-> TRUE, users |-> logins[t].built]
    /\ logins' = [logins EXCEPT ![t].pc = "fetch"]
    /\ UNCHANGED store_builds
    /\ UNCHANGED <<mongo_configured, users_collection, auth_users_env, pending, authOutcome>>
    /\ UNCHANGED <<tokenVars, storyVars, textVars, configVars, toggleVars>>

\* lines 201 and 205: return _user_cache.
LoginFetch(t) ==
    /\ logins[t].pc = "fetch"
    /\ logins' = [logins EXCEPT ![t].pc = "check", ![t].users = user_cache.users]
    /\ UNCHANGED <<store_builds, user_cache>>
    /\ UNCHANGED <<mongo_configured, users_collection, auth_users_env, pending, authOutcome>>
    /\ UNCHANGED <<tokenVars, storyVars, textVars, configVars, toggleVars>>

\* authenticate_user, lines 214-234, and login: the user is looked up in the
\* list, the password and the mode are checked, the token is made for the
\* user's id.
LoginFinish(t) ==
    /\ logins[t].pc = "check"
    /\ \E r \in {CheckUser(FindUser(logins[t].users, logins[t].email), logins[t].password,
                           logins[t].mode, TRUE)} :
         logins' = [logins EXCEPT ![t].pc = "idle", ![t].done = TRUE, ![t].ok = r.ok,
                                  ![t].status = IF r.ok THEN 200 ELSE r.error.status,
                                  ![t].subject = r.user.id,
                                  ![t].salt = r.user.password_salt,
                                  ![t].count = @ + 1]
    /\ UNCHANGED <<store_builds, user_cache>>
    /\ UNCHANGED <<mongo_configured, users_collection, auth_users_env, pending, authOutcome>>
    /\ UNCHANGED <<tokenVars, storyVars, textVars, configVars, toggleVars>>

DemoLogins == {"parent@kiddoland.local", " Teacher@Kiddoland.local"}
DemoPasswords == {"Parent123!"}

LoginInit ==
    /\ TokenIdle
    /\ AuthIdle
    /\ StoryIdle
    /\ TextIdle
    /\ StepIdle

LoginNext ==
    \/ \E t \in Threads, email \in DemoLogins, password \in DemoPasswords :
          LoginStart(t, email, password, "home")
    \/ \E t \in Threads : LoginBuild(t)
    \/ \E t \in Threads : LoginCache(t)
    \/ \E t \in Threads : LoginFetch(t)
    \/ \E t \in Threads : LoginFinish(t)

SpecLogin == LoginInit /\ [][LoginNext]_vars

(***************************************************************************)
(* toggle_story_favorite step by step: callers on two threads toggle the   *)
(* records of the collection; between the find_one and the update_one of   *)
(* one call the other call may run, and the clock may advance.             *)
(***************************************************************************)

\* The most toggles one thread makes.
MaxToggles == 2

\* The record the collection holds at the start: a generated story of u1.
ToggleRecord ==
    StoryDoc("u1", "Emma", "a story about a cat", "Emma met a cat.", 5, "home", "generate", 0)

\* Lines 286-310: the arguments are validated, the collection is fetched, the
\* time is read, and find_one looks for the caller's record; the call
\* returns None when it finds none.
ToggleFind(t, user_id, story_id) ==
    /\ toggles[t].pc = "idle"
    /\ toggles[t].count < MaxToggles
    /\ \E found \in {IF Strip(user_id) = "" \/ Strip(story_id) = ""
                        \/ ~IsObjectId(Strip(story_id)) \/ ~mongo_configured
                     THEN {}
                     ELSE OwnedWithId(story_history, Strip(user_id), Strip(story_id))} :
         toggles' = [toggles EXCEPT
                       ![t] = [toggles[t] EXCEPT
                                 !.pc = IF found = {} THEN "return" ELSE "update",
                                 !.user_id = Strip(user_id),
                                 !.story_id = Strip(story_id),
                                 !.timestamp_utc = now,
                                 !.current_favorite =
                                     IF found = {} THEN FALSE
                                     ELSE story_history[SetMin(found)].is_favorite,
                                 !.exists = found # {},
                                 !.done = FALSE,
                                 !.result = "none"]]
    /\ UNCHANGED <<tokenVars, authVars, storyVars, textVars, configVars, loginVars>>

\* Lines 313-325: new_favorite is the negation of what find_one read;
\* update_one sets it with the time read before; modified_count is 0 when
\* that leaves the document as it was, and the call returns new_favorite
\* when modified_count > 0, else None.
ToggleUpdate(t) ==
    /\ toggles[t].pc = "update"
    /\ \E found \in {OwnedWithId(story_history, toggles[t].user_id, toggles[t].story_id)} :
         IF found = {}
         THEN /\ toggles' = [toggles EXCEPT ![t].pc = "return", ![t].result = "None"]
              /\ UNCHANGED story_history
         ELSE /\ story_history' = SetFavorite(story_history, SetMin(found),
                                              ~toggles[t].current_favorite,
                                              toggles[t].timestamp_utc)
              /\ toggles' = [toggles EXCEPT
                               ![t] = [toggles[t] EXCEPT
                                         !.pc = "return",
                                         !.stored = story_history[SetMin(found)].is_favorite,
                                         !.result =
                                             IF story_history' = story_history
                                             THEN "None"
                                             ELSE IF toggles[t].current_favorite
                                             THEN "False" ELSE "True"]]
    /\ UNCHANGED <<story_ids, storyOutcome, tokenVars, authVars, textVars, configVars,
                   loginVars>>

\* The call returns to its caller.
ToggleReturn(t) ==
    /\ toggles[t].pc = "return"
    /\ toggles' = [toggles EXCEPT
                     ![t] = [NoToggle EXCEPT
                               !.done = TRUE,
                               !.result = IF toggles[t].result = "none" THEN "None"
                                          ELSE toggles[t].result,
                               !.count = toggles[t].count + 1,
                               !.flips = toggles[t].flips
                                         + (IF toggles[t].result \in {"True", "False"}
                                            THEN 1 ELSE 0)]]
    /\ UNCHANGED <<tokenVars, authVars, storyVars, textVars, configVars, loginVars>>

\* The clock of _now_utc advances.
ToggleTick ==
    /\ now < MaxTime
    /\ now' = now + 1
    /\ UNCHANGED <<secret, token, origin, outcome, authVars, storyVars, textVars, stepVars>>

ToggleInit ==
    /\ TokenIdle
    /\ mongo_configured = TRUE
    /\ users_collection = {}
    /\ auth_users_env = NoEnvUsers
    /\ user_cache = NoCache
    /\ pending = [r \in Requests |-> NoPending]
    /\ authOutcome = NoAuthOutcome
    /\ story_history = InsertStory(<<>>, 0, ToggleRecord)
    /\ story_ids = 1
    /\ storyOutcome = NoStoryOutcome
    /\ TextIdle
    /\ StepIdle

ToggleNext ==
    \/ \E t \in Threads, user_id \in {"u1", "u2"}, story_id \in StoryIdArgs :
          ToggleFind(t, user_id, story_id)
    \/ \E t \in Threads : ToggleUpdate(t)
    \/ \E t \in Threads : ToggleReturn(t)
    \/ ToggleTick

SpecToggle == ToggleInit /\ [][ToggleNext]_vars

(***************************************************************************)
(* Properties of the token module                                          *)
(***************************************************************************)

\* The held token was issued for a subject, role and mode verification accepts.
IssuedValid ==
    /\ origin.kind = "issued"
    /\ origin.sub # ""
    /\ origin.role \in Roles
    /\ origin.mode \in Modes

\* The held token was issued and is presented no later than its expiry second.
IssuedUnexpired == origin.kind = "issued" /\ now <= origin.iat + TtlSeconds

\* C1: a token issued by create_access_token for a non-empty subject, a role
\* of Roles and a mode of Modes, presented at any second up to its expiry, is
\* accepted, and the AuthUser returned carries exactly that subject, role and
\* mode.
C1_RoundTrip ==
    (IssuedValid /\ IssuedUnexpired /\ outcome.call = "validate")
        => /\ outcome.ok
           /\ outcome.user = [user_id |-> origin.sub, role |-> origin.role,
                              mode |-> origin.mode]

\* An issued token accepted at the very second it expires, for subject "u2".
C1_Witness ==
    /\ IssuedValid
    /\ origin.sub = "u2"
    /\ origin.role = "Librarian"
    /\ origin.mode = "institution"
    /\ now = origin.iat + TtlSeconds
    /\ outcome.call = "validate"
    /\ outcome.ok

\* C2: an issued token with one character altered fails with
\* InvalidSignature: it is never accepted and never fails in another way.
C2_AlteredInvalidSignature ==
    origin.kind = "altered" => (~outcome.ok /\ outcome.kind = "InvalidSignature")

\* An altered token is accepted.
C2_AlteredAccepted == origin.kind = "altered" /\ outcome.ok

\* The exp member of the held token's payload, read back from the token text.
HeldExp == DictGet(LoadPayload(b64url_decode(Split(token, ".")[1])).members, "exp")

\* C3: a token issued at t0 carries exp = t0 + ttl; presenting it fails with
\* Expired exactly at the seconds after t0 + ttl, whatever else is wrong with
\* its claims; and once it has been rejected as Expired it is never accepted.
C3_ExpiryExact ==
    /\ (origin.kind = "issued" /\ outcome.call = "create")
            => HeldExp = JInt(origin.iat + TtlSeconds)
    /\ (origin.kind = "issued" /\ outcome.call = "validate")
            => ((outcome.kind = "Expired") <=> (now > origin.iat + TtlSeconds))
    /\ origin.expiredSeen => ~(outcome.call = "validate" /\ outcome.ok)

\* An issued token rejected as Expired a second time, two seconds after expiry.
C3_Witness ==
    /\ IssuedValid
    /\ origin.expiredSeen
    /\ now = origin.iat + TtlSeconds + 2
    /\ outcome.call = "validate"
    /\ outcome.kind = "Expired"

\* The first defect of a crafted token in the order format, signature,
\* payload, expiry, claims, at second t.
FirstDefect(o, t) ==
    IF o.format # "two" THEN "InvalidFormat"
    ELSE IF o.sig # "good" THEN "InvalidSignature"
    ELSE IF ~o.parses THEN "InvalidPayload"
    ELSE IF o.exp = "absent" \/ CraftExp < t THEN "Expired"
    ELSE IF o.claims # "ok" THEN "InvalidClaims"
    ELSE "Ok"

\* C4: with the secret configured, a crafted token fails with the kind of its
\* first defect in the order format, signature, payload, expiry, claims
\* (a bad signature hides every defect of the payload), and is accepted when
\* it has none.
C4_FirstDefectReported ==
    (origin.kind = "crafted" /\ outcome.call = "validate" /\ secret # "")
        => outcome.kind = FirstDefect(origin, now)

\* A token signed with another key, past its exp and with a role outside
\* Roles, rejected for its signature.
C4_Witness ==
    /\ origin.kind = "crafted"
    /\ origin.format = "two"
    /\ origin.sig = "wrongkey"
    /\ origin.exp = "present"
    /\ origin.claims = "badrole"
    /\ now > CraftExp
    /\ outcome.call = "validate"
    /\ outcome.kind = "InvalidSignature"

\* The held token is correctly signed and unexpired, and its subject, role or
\* mode is missing or outside the accepted sets.
ClaimsDefective ==
    \/ /\ origin.kind = "crafted"
       /\ origin.format = "two"
       /\ origin.sig = "good"
       /\ origin.parses
       /\ origin.exp = "present"
       /\ now <= CraftExp
       /\ origin.claims # "ok"
    \/ /\ IssuedUnexpired
       /\ ~IssuedValid

\* C5: an accepted token yields a non-empty subject, a role of Roles and a
\* mode of Modes; a correctly signed, unexpired token whose subject, role or
\* mode is missing or outside these sets fails with InvalidClaims.
C5_ClaimsChecked ==
    /\ (outcome.call = "validate" /\ outcome.ok)
            => /\ outcome.user.user_id # ""
               /\ outcome.user.role \in Roles
               /\ outcome.user.mode \in Modes
    /\ (outcome.call = "validate" /\ secret # "" /\ ClaimsDefective)
            => outcome.kind = "InvalidClaims"

\* An issued, unexpired token for the role "Student" rejected for its claims.
C5_Witness ==
    /\ IssuedUnexpired
    /\ origin.role = "Student"
    /\ origin.mode \in Modes
    /\ outcome.call = "validate"
    /\ outcome.kind = "InvalidClaims"
    /\ outcome.detail = "Token has an invalid role."

(***************************************************************************)
(* Properties of get_current_user                                          *)
(***************************************************************************)

ValidateCalls == {"validate", "otherscheme", "noheader"}

TokenFailureKinds ==
    {"InvalidFormat", "InvalidSignature", "InvalidPayload", "Expired", "InvalidClaims"}

\* What the caller sees of a failure: status, detail and WWW-Authenticate.
CallerVisible(r) == <<r.status, r.detail, r.www>>

\* C7 as stated: a missing or non-bearer credential and every token failure
\* kind give the caller one and the same result.
C7_SameResult ==
    (outcome.call \in ValidateCalls /\ outcome.kind \in TokenFailureKinds \cup {"Missing"})
        => CallerVisible(outcome) = <<401, "Missing authorization token.", TRUE>>

\* C7 amended: with the secret configured, every failure of get_current_user
\* is a 401 of the kind Missing or of one of the token failure kinds and
\* carries no user; a request with no credential or with a credential of
\* another scheme is answered Missing whatever token it holds.
C7_AllUnauthorized ==
    /\ (outcome.call \in ValidateCalls /\ ~outcome.ok /\ secret # "")
            => /\ outcome.status = 401
               /\ outcome.kind \in TokenFailureKinds \cup {"Missing"}
               /\ outcome.user = NoUser
    /\ outcome.call \in {"otherscheme", "noheader"}
            => /\ outcome.kind = "Missing"
               /\ outcome.status = 401
               /\ outcome.www

\* A valid, unexpired token presented under the scheme "Basic" and refused.
C7_Witness ==
    /\ IssuedValid
    /\ IssuedUnexpired
    /\ outcome.call = "otherscheme"
    /\ outcome.kind = "Missing"
    /\ outcome.status = 401

(***************************************************************************)
(* Properties of the auth service                                          *)
(***************************************************************************)

\* The credentials the database holds, as authenticate_user reads them.
DbCredentials ==
    IF mongo_configured THEN {deserialize_db_user(d) : d \in users_collection} ELSE {}

\* The credential stored for a normalized email: the database's when it has
\* one, else the fallback list's.
HeldCredential(email) ==
    IF \E c \in DbCredentials : c.email = email
    THEN CHOOSE c \in DbCredentials : c.email = email
    ELSE IF \E c \in Range(user_cache.users) : c.email = email
    THEN CHOOSE c \in Range(user_cache.users) : c.email = email
    ELSE NoCredential

\* The password is the one the credential's hash was made from.
PasswordMatches(cred, password) ==
    cred.found /\ hash_password(password, cred.password_salt) = cred.password_hash

ModeAllowed(cred, mode) == cred.modes = <<>> \/ mode \in Range(cred.modes)

AuthenticateContract(cred, o) ==
    /\ o.ok <=> (PasswordMatches(cred, o.password) /\ ModeAllowed(cred, o.mode))
    /\ o.ok => (o.user = cred /\ o.status = 200)
    /\ ~PasswordMatches(cred, o.password) => o.status = 401
    /\ (o.status = 403) <=> (PasswordMatches(cred, o.password) /\ ~ModeAllowed(cred, o.mode))

\* C6: with a well-formed fallback list, authenticate_user returns the
\* credential stored for the trimmed, lower-cased email exactly when there is
\* one, the password matches and its modes are empty or hold the requested
\* mode; an absent credential or a wrong password is answered 401, whatever
\* the mode, and 403 is answered exactly for a matching password with a
\* non-empty modes list that lacks the mode.
C6_AuthenticateContract ==
    authOutcome.call = "authenticate" =>
        AuthenticateContract(HeldCredential(Lower(Strip(authOutcome.email))), authOutcome)

\* A wrong password for a stored credential whose modes exclude the requested
\* mode has been answered 401.
C6_Witness ==
    /\ authOutcome.call = "authenticate"
    /\ authOutcome.status = 401
    /\ HeldCredential(Lower(Strip(authOutcome.email))).found
    /\ ~PasswordMatches(HeldCredential(Lower(Strip(authOutcome.email))), authOutcome.password)
    /\ ~ModeAllowed(HeldCredential(Lower(Strip(authOutcome.email))), authOutcome.mode)

\* C8 (as claimed): a register_user call that fails while a credential with
\* its normalized email is stored fails with Conflict (409), also when the
\* credential was stored by a registration that overlapped it.
C8_DuplicateIsConflict ==
    (/\ authOutcome.call = "register"
     /\ ~authOutcome.ok
     /\ \E d \in users_collection : d.email = Lower(Strip(authOutcome.email)))
    => (authOutcome.kind = "Conflict" /\ authOutcome.status = 409)

\* C8, the part on the store: at most one credential per normalized email,
\* each email stored in its normalized form.
C8_OnePerEmail ==
    /\ \A d1, d2 \in users_collection : d1.email = d2.email => d1 = d2
    /\ \A d \in users_collection : d.email = Lower(Strip(d.email))

(***************************************************************************)
(* Properties of the story handlers                                        *)
(***************************************************************************)

\* A generation request with a defective prompt.
SampleDefect(o) ==
    /\ o.call = "sample"
    /\ \/ clean_text_for_model(o.prompt) = ""
       \/ ~is_content_safe(clean_text_for_model(o.prompt))
       \/ extract_age_from_prompt(clean_text_for_model(o.prompt)) = NoAge
       \/ extract_child_name(clean_text_for_model(o.prompt)) = NoName

\* A rewrite request with a defective text.
RewriteDefect(o) ==
    /\ o.call = "rewrite"
    /\ \/ clean_text_for_model(o.original) = ""
       \/ clean_text_for_model(o.prompt) = ""
       \/ ~is_content_safe(clean_text_for_model(o.original))
       \/ ~is_content_safe(clean_text_for_model(o.prompt))
       \/ /\ extract_child_name(clean_text_for_model(o.prompt)) = NoName
          /\ extract_child_name(clean_text_for_model(o.original)) = NoName

\* C9: a generation or rewrite request in which a cleaned input text is
\* empty or flagged by is_content_safe, or the child name (for generation,
\* also the age) cannot be extracted, never reaches the completion client
\* and leaves the story_history collection as it was; once its caller is
\* verified it is answered 400 (an unverified caller has its 401 from
\* get_current_user before the handler looks at the texts).
C9_ChecksBeforeCompletion ==
    [][(SampleDefect(storyOutcome') \/ RewriteDefect(storyOutcome'))
       => (/\ ~storyOutcome'.called
           /\ story_history' = story_history
           /\ storyOutcome'.authed => storyOutcome'.status = 400
           /\ ~storyOutcome'.authed => storyOutcome'.status = 401)]_vars

\* An unsafe prompt or rewrite instruction of a verified caller has been
\* rejected while the collection holds records.
C9_Witness ==
    /\ storyOutcome.authed
    /\ storyOutcome.status = 400
    /\ ~storyOutcome.called
    /\ story_history # <<>>
    /\ \/ (storyOutcome.call = "sample"
           /\ ~is_content_safe(clean_text_for_model(storyOutcome.prompt)))
       \/ (storyOutcome.call = "rewrite"
           /\ ~is_content_safe(clean_text_for_model(storyOutcome.prompt)))

\* C10 (as claimed): a generation or rewrite request whose model output
\* is_content_safe flags is answered 200 with the fixed refusal message, and
\* the generated text is not in the response.
C10_UnsafeOutputRefused ==
    (/\ storyOutcome.call \in {"sample", "rewrite"}
     /\ storyOutcome.completed
     /\ ~is_content_safe(storyOutcome.generated))
    => (/\ storyOutcome.status = 200
        /\ storyOutcome.output = RefusalMessage
        /\ storyOutcome.output # storyOutcome.generated)

\* C10, the rewrite half: an unsafe rewritten story is answered with the
\* refusal message and is not saved.
C10_RewriteRefused ==
    (/\ storyOutcome.call = "rewrite"
     /\ storyOutcome.completed
     /\ ~is_content_safe(storyOutcome.generated))
    => (/\ storyOutcome.status = 200
        /\ storyOutcome.output = RefusalMessage
        /\ ~storyOutcome.saved)

(***************************************************************************)
(* Properties of the story history operations                              *)
(***************************************************************************)

\* C11: once the completion client has returned text for a generation or
\* rewrite request, the response is 200, and whatever save_story_record did
\* (no MONGODB_URI, no answer of the server, a failed create_index, a failed
\* insert, a ValueError for the record, or the insert) the response carries
\* the story text the client returned.
C11_PersistenceNeverFails ==
    (storyOutcome.call \in {"sample", "rewrite"} /\ storyOutcome.completed)
    => (/\ storyOutcome.status = 200
        /\ storyOutcome.detail = ""
        /\ storyOutcome.persistence # "none" => storyOutcome.output = storyOutcome.generated
        /\ storyOutcome.persistence \notin {"inserted", "index_failed"}
              => ~storyOutcome.saved)

\* A generation request of the user with the blank id got its story although
\* save_story_record raised ValueError.
C11_Witness ==
    /\ storyOutcome.call = "sample"
    /\ storyOutcome.completed
    /\ storyOutcome.persistence = "validation_error"
    /\ storyOutcome.status = 200
    /\ storyOutcome.output = "Emma met a kind dragon."

\* The story and AI routes.
StoryRoutes == {"sample", "rewrite", "save-favorite", "history", "favorites"}

\* The subject each token issued under the server's secret was issued for.
IssuedSubject == (StoryToken :> "u1") @@ (OtherToken :> "u2") @@ (BlankToken :> " ")

\* C12: a request to a story or AI route that does not carry a token issued
\* under the server's secret is answered 401 by get_current_user: no
\* validation message, no call of the completion client, no read and no
\* write of the story_history collection; a request that carries such a
\* token is handled for the subject of that token.
C12_VerifiedCallerFirst ==
    [][storyOutcome'.call \in StoryRoutes
       => IF storyOutcome'.bearer \in DOMAIN IssuedSubject
          THEN /\ storyOutcome'.authed
               /\ storyOutcome'.user = IssuedSubject[storyOutcome'.bearer]
          ELSE /\ storyOutcome'.status = 401
               /\ storyOutcome'.detail \in {"Missing authorization token.",
                                            "Invalid token signature."}
               /\ ~storyOutcome'.authed
               /\ ~storyOutcome'.called
               /\ storyOutcome'.persistence = "none"
               /\ storyOutcome'.items = <<>>
               /\ storyOutcome'.output = ""
               /\ story_history' = story_history
               /\ story_ids' = story_ids]_vars

\* A save-favorite request with a token signed with another key has been
\* answered 401 while the collection holds a record.
C12_Witness ==
    /\ storyOutcome.call = "save-favorite"
    /\ storyOutcome.bearer = ForgedToken
    /\ storyOutcome.status = 401
    /\ story_history # <<>>

\* The positions of the document with the given _id.
WithId(history, id) == {i \in DOMAIN history : history[i].id = id}

NotOwnedBy(history, user_id) == SelectSeq(history, LAMBDA d : d.user_id # user_id)

\* C14: a call of delete_story_record, toggle_story_favorite or
\* mark_story_favorite for user id A leaves the records of every other user
\* as they were, and a delete or toggle aimed at the _id of another user's
\* record returns False (delete) or None (toggle) and changes nothing.
C14_OwnerScoped ==
    [][storyOutcome'.call \in {"delete", "toggle", "save-favorite"}
       => /\ NotOwnedBy(story_history', Strip(storyOutcome'.user))
               = NotOwnedBy(story_history, Strip(storyOutcome'.user))
          /\ (/\ storyOutcome'.call \in {"delete", "toggle"}
              /\ \E i \in WithId(story_history, Strip(storyOutcome'.story_id)) :
                    story_history[i].user_id # Strip(storyOutcome'.user))
             => (/\ storyOutcome'.result
                      = (IF storyOutcome'.call = "delete" THEN "False" ELSE "None")
                 /\ story_history' = story_history)]_vars

\* User u1 asked to delete the record of user u2 by its _id and was told that
\* nothing was deleted.
C14_Witness ==
    /\ storyOutcome.call = "delete"
    /\ storyOutcome.user = "u1"
    /\ storyOutcome.persistence = "not_found"
    /\ storyOutcome.result = "False"
    /\ \E i \in WithId(story_history, storyOutcome.story_id) :
         story_history[i].user_id = "u2"

\* The _ids of the records of the collection.
IdsOf(history) == {history[i].id : i \in DOMAIN history}

\* The record without its favorite flag and its time of update.
Unflagged(d) == [d EXCEPT !.is_favorite = FALSE, !.updated_at = 0]

\* The collection holds the same records, up to their favorite flags.
SameRecords(before, after) ==
    /\ Len(before) = Len(after)
    /\ \A i \in DOMAIN before : Unflagged(before[i]) = Unflagged(after[i])

\* Every record that left the collection was deleted by its owner by its _id.
OnlyOwnerDeletes(before, after, o) ==
    \A i \in DOMAIN before :
      before[i].id \notin IdsOf(after)
      => (/\ o.call = "delete"
          /\ before[i].user_id = Strip(o.user)
          /\ before[i].id = Strip(o.story_id))

\* C15 (as claimed): a record is new in the collection only after a
\* generation or rewrite request that ended with 200; save-favorite and
\* toggle leave the set of records as it was, and a record leaves the
\* collection only through delete_story_record called by its owner.
C15_OnlyGenerationCreates ==
    [][/\ IdsOf(story_history') \ IdsOf(story_history) # {}
          => (/\ storyOutcome'.call \in {"sample", "rewrite"}
              /\ storyOutcome'.completed
              /\ storyOutcome'.status = 200)
       /\ storyOutcome'.call \in {"save-favorite", "toggle"}
          => SameRecords(story_history, story_history')
       /\ OnlyOwnerDeletes(story_history, story_history', storyOutcome')]_vars

\* C15 (amended): a record is new in the collection after a generation or
\* rewrite request that ended with 200, or after a save-favorite request of
\* a caller who had no record with that story: the upsert of
\* mark_story_favorite inserts one for the caller, flagged favorite and with
\* an empty child_name. A save-favorite request answered saved=true leaves a
\* favorite record of the caller with that story; when the caller had one,
\* and for every toggle, the records stay the same up to their flags. A
\* record leaves the collection only through delete_story_record called by
\* its owner.
C15_RecordLifecycle ==
    [][/\ \A j \in DOMAIN story_history' :
            story_history'[j].id \notin IdsOf(story_history)
            => \/ /\ storyOutcome'.call \in {"sample", "rewrite"}
                  /\ storyOutcome'.completed
                  /\ storyOutcome'.status = 200
                  /\ storyOutcome'.saved
                  /\ ~story_history'[j].is_favorite
               \/ /\ storyOutcome'.call = "save-favorite"
                  /\ storyOutcome'.saved
                  /\ \A i \in DOMAIN story_history :
                        \/ story_history[i].user_id # storyOutcome'.user
                        \/ story_history[i].story # Strip(storyOutcome'.story)
                  /\ story_history'[j].child_name = ""
                  /\ story_history'[j].is_favorite
       /\ (storyOutcome'.call = "save-favorite" /\ storyOutcome'.saved)
          => \E j \in DOMAIN story_history' :
                /\ story_history'[j].user_id = storyOutcome'.user
                /\ story_history'[j].story = Strip(storyOutcome'.story)
                /\ story_history'[j].is_favorite
       /\ (/\ storyOutcome'.call = "save-favorite"
           /\ \E i \in DOMAIN story_history :
                 /\ story_history[i].user_id = storyOutcome'.user
                 /\ story_history[i].story = Strip(storyOutcome'.story))
          => SameRecords(story_history, story_history')
       /\ storyOutcome'.call = "toggle" => SameRecords(story_history, story_history')
       /\ OnlyOwnerDeletes(story_history, story_history', storyOutcome')]_vars

\* A save-favorite request has put a record into the empty collection.
C15_Witness ==
    /\ storyOutcome.call = "save-favorite"
    /\ storyOutcome.persistence = "upserted"
    /\ storyOutcome.saved
    /\ Len(story_history) = 1
    /\ story_history[1].child_name = ""
    /\ story_history[1].is_favorite

(***************************************************************************)
(* Properties of the completion client                                     *)
(***************************************************************************)

\* C16 (as claimed): a generation or rewrite request whose completion call
\* failed is answered with the status of the failure kind: 401 for an
\* upstream 401 or 403, 504 for a timeout, 503 for an upstream 503, and 502
\* for any other non-200, non-JSON or empty answer; only a timeout is
\* answered 504.
C16_StatusPerFailureKind ==
    (storyOutcome.call \in {"sample", "rewrite"} /\ storyOutcome.called
     /\ ~storyOutcome.completed)
    => (/\ storyOutcome.upstream \in {"401", "403"} => storyOutcome.status = 401
        /\ storyOutcome.upstream = "timeout" <=> storyOutcome.status = 504
        /\ storyOutcome.upstream = "503" => storyOutcome.status = 503
        /\ storyOutcome.upstream \in {"500", "not_json", "empty"}
              => storyOutcome.status = 502)

(***************************************************************************)
(* Properties of the signing secret                                        *)
(***************************************************************************)

\* C17 (as claimed): without KIDDOLAND_AUTH_SECRET every create_access_token
\* call and every verify_access_token call fails with the configuration
\* error (500), whatever the token is.
C17_MissingSecretIsFatal ==
    (secret = "" /\ outcome.call \in {"create", "validate"})
    => (/\ ~outcome.ok
        /\ outcome.kind = "ConfigError"
        /\ outcome.status = 500)

\* C17, the part that holds: without the secret no call succeeds, and every
\* call on a token of two segments fails with the configuration error.
C17_NoSuccessWithoutSecret ==
    (secret = "" /\ outcome.call \in {"create", "validate"})
    => (/\ ~outcome.ok
        /\ (outcome.call = "create" \/ origin.format = "two")
              => (outcome.kind = "ConfigError" /\ outcome.status = 500))

(***************************************************************************)
(* Properties of the safety functions                                      *)
(***************************************************************************)

\* The call answered last, with the texts its record holds.
Answered ==
    [textOutcome EXCEPT !.input = Passed(@), !.text = Unescaped(@), !.name = Unescaped(@),
                        !.reasons = [i \in DOMAIN @ |-> Unescaped(@[i])]]

NoControlIn(s) == \A i \in 1..Len(s) : CharAt(s, i) \notin ControlChars

NoSpaceRunIn(s) ==
    \A i \in 1..(Len(s) - 1) : ~(CharAt(s, i) \in StrSpaces /\ CharAt(s, i + 1) \in StrSpaces)

NoSpaceAtEnds(s) ==
    s = "" \/ (CharAt(s, 1) \notin StrSpaces /\ CharAt(s, Len(s)) \notin StrSpaces)

\* C18: clean_text_for_model is idempotent: cleaning its own result gives
\* that result back; the result of every call holds no control character,
\* no two whitespace characters in a row and no whitespace at either end;
\* and the result for a value that is not a text is the empty string.
C18_CleanIdempotent ==
    /\ Answered.call = "clean_again" => Answered.text = Answered.input.value
    /\ Answered.call \in {"clean", "clean_again"}
          => (/\ NoControlIn(Answered.text)
              /\ NoSpaceRunIn(Answered.text)
              /\ NoSpaceAtEnds(Answered.text)
              /\ Answered.input.type # "str" => Answered.text = "")

\* A text with control characters, runs of whitespace and whitespace at both
\* ends has been cleaned, and its result cleaned again.
C18_Witness ==
    /\ Answered.call = "clean_again"
    /\ argument = PyStr(" a\t\tstory " \o Del \o " for  Emma \n")
    /\ Answered.text = "a story for Emma"

\* The keyword w stands in s at position p with no word character next to it.
WholeWordAt(s, w, p) ==
    /\ p + Len(w) - 1 <= Len(s)
    /\ SubSeq(s, p, p + Len(w) - 1) = w
    /\ ~IsWordAt(s, p - 1)
    /\ ~IsWordAt(s, p + Len(w))

Denylist == UNION {UNSAFE_KEYWORDS[k] : k \in 1..Len(UNSAFE_KEYWORDS)}

\* Some keyword of the denylist is a whole word of the text, in any letter case.
DeniedWordIn(lowered) ==
    \E w \in Denylist : \E p \in 1..Len(lowered) : WholeWordAt(lowered, w, p)

HasDeniedWord(s) == DeniedWordIn(Lower(s))

OnlySpaces(s) == \A i \in 1..Len(s) : CharAt(s, i) \in StrSpaces

InRangePatterns(s) == {k \in 1..4 : AgeSearch(s, k) >= 1 /\ AgeSearch(s, k) <= 10}

\* The capture of the first of them, none when there is no such pattern.
FirstInRange(s) ==
    IF InRangePatterns(s) = {} THEN NoAge ELSE AgeSearch(s, SetMin(InRangePatterns(s)))

\* C20: _extract_age_from_prompt returns the capture of the first pattern, in
\* the order of the list, whose match captures a value in [1,10], and none
\* when there is no such pattern; what it returns is none or in [1,10], and is
\* the capture of one pattern; "for a 7-year-old" gives 7 and
\* "for a 15-year-old" gives none.
C20_FirstPatternInRange ==
    Answered.call = "age"
       => (/\ Answered.age = FirstInRange(Lower(Answered.input.value))
           /\ Answered.age = NoAge \/ (Answered.age >= 1 /\ Answered.age <= 10)
           /\ Answered.age # NoAge
                 => \E k \in 1..4 : AgeSearch(Lower(Answered.input.value), k) = Answered.age
           /\ Answered.input.value = "for a 7-year-old" => Answered.age = 7
           /\ Answered.input.value = "for a 15-year-old" => Answered.age = NoAge)

\* The second pattern captured 15, out of range, and the third pattern's 3
\* was returned.
C20_Witness ==
    /\ Answered.call = "age"
    /\ Answered.input.value = "age 3 for 15 years old"
    /\ AgeSearch("age 3 for 15 years old", 2) = 15
    /\ Answered.age = 3

\* The capture of pattern k in the cleaned text, without the hyphens and
\* apostrophes around it; "" when the pattern does not match.
TrimmedCapture(cleaned, k) == StripChars(NameSearch(cleaned, Lower(cleaned), k), {"-", "'"})

ValidCapture(c) == Len(c) >= 2 /\ Lower(c) \notin disallowed

ValidPatterns(cleaned) == {k \in 1..6 : ValidCapture(TrimmedCapture(cleaned, k))}

\* The capture of the first pattern with a valid one, none when there is none.
FirstValidCapture(cleaned) ==
    IF ValidPatterns(cleaned) = {} THEN NoName
    ELSE TrimmedCapture(cleaned, SetMin(ValidPatterns(cleaned)))

\* The first letter in upper case, the rest as it was.
UpperFirst(s) == IF s = "" THEN "" ELSE UpperChar(CharAt(s, 1)) \o SubSeq(s, 2, Len(s))

ResolvedName(o) ==
    IF extract_child_name(clean_text_for_model(o.prompt)) # NoName
    THEN extract_child_name(clean_text_for_model(o.prompt))
    ELSE extract_child_name(clean_text_for_model(o.original))

\* The request was answered 400 before the completion client was called.
RefusedEarly(o) == o.status = 400 /\ ~o.called /\ ~o.saved

PersistenceCalls == {"sample", "rewrite", "save-favorite", "history", "favorites", "delete",
                     "toggle"}

\* The last call was one of the story history service, or of an endpoint
\* that got as far as calling it.
ReachedPersistence(o) ==
    /\ o.call \in PersistenceCalls
    /\ o.call \in {"sample", "rewrite"} => o.completed /\ o.persistence # "none"
    /\ o.call \in {"save-favorite", "history", "favorites"} => o.authed

\* The call gave the answer of a service that is not there, and raised
\* nothing.
Unavailable(o) ==
    /\ o.persistence = "not_configured"
    /\ ~o.saved
    /\ o.items = <<>>
    /\ o.call \in {"sample", "rewrite", "save-favorite", "history", "favorites"}
          => o.status = 200
    /\ o.call = "save-favorite" => o.output = "Favorite save is currently unavailable."
    /\ o.call = "delete" => o.result = "False" /\ o.detail = ""
    /\ o.call = "toggle" => o.result = "None" /\ o.detail = ""

\* C23, as claimed: without MONGODB_URI every operation of the story history
\* service reports "unavailable" (false, an empty list, not done,
\* saved=false), raises nothing and leaves the collection as it was.
C23_NoUriNeverRaises ==
    [][(~mongo_configured /\ ReachedPersistence(storyOutcome'))
       => (Unavailable(storyOutcome') /\ story_history' = story_history)]_vars

\* C23, amended: without MONGODB_URI every operation of the story history
\* service whose arguments pass its own validation reports "unavailable" and
\* raises nothing; an operation with a blank required text or a malformed
\* story id raises its ValueError as it does with a configured store; in
\* both cases the collection stays as it was.
C23_NoUriUnavailable ==
    [][(~mongo_configured /\ ReachedPersistence(storyOutcome'))
       => (/\ storyOutcome'.persistence \in {"not_configured", "validation_error"}
           /\ storyOutcome'.persistence = "not_configured" => Unavailable(storyOutcome')
           /\ ~storyOutcome'.saved
           /\ story_history' = story_history)]_vars

\* Without MONGODB_URI a valid save-favorite request was answered 200 with
\* saved=false.
C23_Witness ==
    /\ ~mongo_configured
    /\ storyOutcome.call = "save-favorite"
    /\ storyOutcome.authed
    /\ storyOutcome.status = 200
    /\ storyOutcome.persistence = "not_configured"
    /\ storyOutcome.output = "Favorite save is currently unavailable."
    /\ story_history = <<>>

(***************************************************************************)
(* Properties of the configuration cache                                   *)
(***************************************************************************)

\* C24: _load_huggingface_config runs at most once in a process, whatever the
\* interleaving of the threads' calls of get_huggingface_config; every call
\* that returns gives the one config object the loader made; and _HF_CONFIG,
\* once set, is never assigned another object.
C24_ConfigLoadedOnce ==
    [][/\ hf_loads' <= 1
       /\ \A t \in Threads \cup {MainThread} :
             hf_calls'[t].got.set
                => (hf_calls'[t].got = hf_config' /\ hf_calls'[t].got.object = 1)
       /\ hf_config.set => hf_config' = hf_config]_vars

\* Both worker threads are inside their first call of get_huggingface_config
\* at once, after the main thread got the config, and the loader has run once.
C24_Witness ==
    /\ hf_calls[1].pc = "return" /\ hf_calls[1].calls = 0
    /\ hf_calls[2].pc = "return" /\ hf_calls[2].calls = 0
    /\ hf_calls[MainThread].got.set
    /\ hf_loads = 1

(***************************************************************************)
(* Properties of the fallback credential list                              *)
(***************************************************************************)

\* C25: the demo credential list is built at most once in a process, in
\* every interleaving of logins; any two logins of one demo account that
\* succeeded got the same credential (id and salt), so their tokens carry
\* the same subject.
C25_DemoUsersBuiltOnce ==
    /\ store_builds <= 1
    /\ \A t, u \in Threads :
          (/\ logins[t].done /\ logins[t].ok
           /\ logins[u].done /\ logins[u].ok
           /\ logins[t].email = logins[u].email)
          => (logins[t].subject = logins[u].subject /\ logins[t].salt = logins[u].salt)

\* C26: with a users collection configured and reachable, authenticate_user
\* succeeds only for an email that has a document in the collection; a login
\* with a demo account's email and password that is not in the collection is
\* answered 401.
C26_StoreOnlyWhenConfigured ==
    (mongo_configured /\ authOutcome.call = "authenticate")
    => (/\ authOutcome.ok
              => \E d \in users_collection : d.email = Lower(Strip(authOutcome.email))
        /\ (/\ Lower(Strip(authOutcome.email)) = DemoSpecs[1].email
            /\ authOutcome.password = DemoSpecs[1].password
            /\ \A d \in users_collection : d.email # DemoSpecs[1].email)
              => authOutcome.status = 401)

\* The successful toggles of the record made so far, over all threads.
RECURSIVE FlipsOf(_)
FlipsOf(ts) ==
    IF ts = {} THEN 0
    ELSE LET t == CHOOSE x \in ts : TRUE IN toggles[t].flips + FlipsOf(ts \ {t})

\* C27: toggle_story_favorite flips the flag once per successful call: a call
\* that found the record returns the negation of the flag stored right
\* before its update and never None while the record exists, and when no
\* call is in flight the flag of the record is its first value flipped once
\* per call that returned True or False.
C27_ToggleFlipsOnce ==
    /\ \A t \in Threads :
          (toggles[t].pc = "return" /\ toggles[t].exists)
          => (/\ toggles[t].result \in {"True", "False"}
              /\ (toggles[t].result = "True") = ~toggles[t].stored)
    /\ (\A t \in Threads : toggles[t].pc = "idle")
          => (story_history[1].is_favorite = (FlipsOf(Threads) % 2 = 1))

\* C28: every record of the story_history collection holds a story text that
\* is_content_safe accepts, whichever request stored it (the auto-save of a
\* generation, the save of a rewrite, or save-favorite).
C28_StoredStoriesSafe ==
    \A i \in DOMAIN story_history : is_content_safe(story_history[i].story)

\* The credential authenticate_user looks at for an email: the document of
\* the users collection, else the entry of the fallback list.
LookedUp(email, store) ==
    IF load_user_from_db(email, mongo_configured, users_collection).found
    THEN load_user_from_db(email, mongo_configured, users_collection)
    ELSE FindUser(store.users, email)

\* The user store without a credential for the email.
CollectionWithout(email) == {d \in users_collection : d.email # email}

StoreWithout(store, email) ==
    [store EXCEPT !.users = SelectSeq(store.users, LAMBDA u : u.email # email)]

\* The failure of a call with the credential present, and with it absent.
SameFailure(present, absent) ==
    /\ ~present.ok
    /\ ~absent.ok
    /\ present.error.status = absent.error.status
    /\ present.error.detail = absent.error.detail

\* The password is not the one of the credential, if there is one.
Mismatch(cred, password) ==
    cred.found /\ ~verify_password(password, cred.password_salt, cred.password_hash)

\* The login answered last met a credential for its email whose password it
\* did not present.
WrongPasswordFor(store) ==
    /\ authOutcome.call = "authenticate"
    /\ Mismatch(LookedUp(Lower(Strip(authOutcome.email)), store), authOutcome.password)

\* The call answers alike with the user store as it is and with the user
\* store without a credential for the normalized email.
AnswersAlike(email, normalized_email, password, mode, store) ==
    SameFailure(authenticate_user(email, password, mode, mongo_configured,
                                  users_collection, store),
                authenticate_user(email, password, mode, mongo_configured,
                                  CollectionWithout(normalized_email),
                                  StoreWithout(store, normalized_email)))

\* C29: a login with a password that does not match the credential stored
\* for its email is answered as it would be were there no credential for the
\* email at all: the same status and the same detail, for every mode.
C29_NoAccountOracle ==
    authOutcome.call = "authenticate"
    => \A store \in UserStores :
          WrongPasswordFor(store)
          => /\ authOutcome.status = 401
             /\ \A mode \in Modes :
                   AnswersAlike(authOutcome.email, Lower(Strip(authOutcome.email)),
                                authOutcome.password, mode, store)

\* A login with the wrong password for a registered account that is not
\* permitted the requested mode.
C29_Witness ==
    /\ authOutcome.call = "authenticate"
    /\ authOutcome.status = 401
    /\ \E d \in users_collection :
          /\ d.email = Lower(Strip(authOutcome.email))
          /\ authOutcome.mode \notin Range(d.modes)
    /\ \A store \in UserStores : WrongPasswordFor(store)

\* The patterns of UNSAFE_KEYWORDS with a keyword that is a whole word of
\* the lower-cased text.
MatchingCategories(lowered) ==
    {k \in 1..Len(UNSAFE_KEYWORDS) :
        \E w \in UNSAFE_KEYWORDS[k] : \E p \in 1..Len(lowered) : WholeWordAt(lowered, w, p)}

\* The i-th of them.
NthCategory(lowered, i) ==
    CHOOSE k \in MatchingCategories(lowered) :
        Cardinality({m \in MatchingCategories(lowered) : m <= k}) = i

\* The keywords of pattern k that are whole words of the lower-cased text.
WholeWordsOf(lowered, k) ==
    {w \in UNSAFE_KEYWORDS[k] : \E p \in 1..Len(lowered) : WholeWordAt(lowered, w, p)}

\* The reason names the keywords of pattern k found in the text, each once.
NamesCategory(reason, lowered, k) ==
    \E tokens \in Orders(WholeWordsOf(lowered, k)) :
        reason = "Contains inappropriate keyword: " \o JoinComma(tokens)

ReasonsAgree(text, lowered, reasons) ==
    /\ is_content_safe(text) <=> reasons = <<>>
    /\ Len(reasons) <= 4
    /\ OnlySpaces(text) => reasons = <<>>
    /\ ~OnlySpaces(text)
          => /\ Len(reasons) = Cardinality(MatchingCategories(lowered))
             /\ \A i \in 1..Len(reasons) :
                   NamesCategory(reasons[i], lowered, NthCategory(lowered, i))

\* C30: is_content_safe(text) is true exactly when
\* get_unsafe_content_reasons(text) is the empty list, and the list has one
\* entry for each pattern of the denylist that matches, at most four, in the
\* order of the patterns, each naming the distinct keywords matched.
C30_ReasonsAgree ==
    Answered.call = "reasons"
    => ReasonsAgree(Answered.input.value, Lower(Answered.input.value),
                    Answered.reasons)

\* A text with a keyword of each of the four patterns got four reasons, in
\* the order of the patterns.
C30_Witness ==
    /\ Answered.call = "reasons"
    /\ Answered.input.value = "hell: a nude gun on drugs, alcohol!"
    /\ Answered.reasons = <<"Contains inappropriate keyword: gun",
                               "Contains inappropriate keyword: nude",
                               "Contains inappropriate keyword: hell",
                               "Contains inappropriate keyword: alcohol">>

=============================================================================
